---------------------------- MODULE Spec2Model ----------------------------
(***************************************************************************)
(* Release-resolution and idempotent-install pipeline of cgg-obs.          *)
(*                                                                         *)
(* The module holds one state machine per component, sharing one list of   *)
(* variables; a component's specification leaves the variables of the      *)
(* other components at their idle values:                                  *)
(*   SpecAsset  OBSPluginManager.find_matching_asset (plugin_manager.py)   *)
(*   SpecCLI    cggOBS pipeline of cgg-obs-setup.py, two runs in a row     *)
(*   SpecGUI    InstallationWorker.run + OBSPluginManager (GUI pipeline)   *)
(*   SpecZip    ZipExtractor.extract_zip (extractor.py)                    *)
(*   SpecDL     FileDownloader.download_file (downloader.py)               *)
(*   SpecSave   write_dict_to_file / save_version_tracking with a kill     *)
(*   SpecFlat   ZipExtractor.extract_obs_installation (extractor.py)        *)
(*   SpecLoad   read_json_file / load_version_tracking at startup           *)
(*   SpecCancel cancel() on the UI thread during the OBS download           *)
(*   SpecPasses the two passes of install_downloads in main()              *)
(*   SpecMove   cggOBS.move_directories, one configured move               *)
(*   SpecShared GUI runs over one installation directory: OBS and a plugin *)
(*   SpecCache  GitHubAPIClient: the response cache of the release queries *)
(***************************************************************************)
EXTENDS Integers, Sequences, FiniteSets, TLC

VARIABLES
    \* ---- find_matching_asset (plugin_manager.py) ----
    assets,             \* list of asset names of the release
    filename_pattern,   \* the configured pattern
    matching_asset,     \* index of the returned asset in assets, 0 = None
    fm_pc,              \* "call" before the call, "returned" after it
    \* ---- the download decision of download_objects (cgg-obs-setup.py) ----
    d_force,            \* values.get("force_download", False)
    d_pattern,          \* values.get("filename")
    d_record,           \* installed_versions.get(this_object, ...)
    d_filename,         \* resolved filename
    d_tag,              \* resolved tag, PyNone for a forum resource
    d_download,         \* the decision
    d_pc,               \* "decide" before, "decided" after
    \* ---- cggOBS pipeline (cgg-obs-setup.py) ----
    json_data,          \* the "downloads" of the configuration, in order
    upstream,           \* what each object resolves to at its remote source
    versions_json,      \* downloads/versions.json on disk
    installed_versions, \* self.installed_versions
    downloads_status,   \* self.downloads_status
    cli_pc,             \* the step main() is at
    cli_i,              \* position of the loop of that step
    cli_run,            \* number of the run (process) in progress
    startup_json,       \* versions.json as it was when this run started
    downloaded,         \* objects download_file was called for in this run
    extracted_ok,       \* objects whose extraction returned True in this run
    run1_clean,         \* run 1 resolved, downloaded and extracted everything
    downloads_dir,      \* per file name: the object whose download of this run it holds
    extracted_archive,  \* per object: whose download the archive extracted for it was
    \* ---- GUI pipeline (installer.py, plugin_manager.py) ----
    options,            \* self.options of the worker
    last_obs_version,   \* [installation] last_obs_version of the configuration
    obs_cache,          \* the OBS archive in the download cache: none, partial, complete
    plugin_versions_json, \* plugins/plugin_versions.json on disk
    downloaded_versions,  \* self.downloaded_versions of the plugin manager
    plugin_files,       \* plugins whose local_path exists in the cache
    latest_release,     \* latest_release of run(), NoRelease outside the OBS step
    g_pc,               \* the step run() is at
    g_i,                \* position of the loop of download_all_plugins
    g_run,              \* number of the run in progress
    cancelled,          \* self.cancelled
    g_processed,        \* objects whose processing began in this run
    g_extracted,        \* objects whose extraction returned True in this run
    g_start_obs,        \* last_obs_version when this run started
    g_start_versions,   \* plugin_versions.json when this run started
    g_nu,               \* the call of needs_update of the last iteration
    current_download_path, \* self.current_download_path: "None" or "set"
    \* ---- ZipExtractor.extract_zip (extractor.py) ----
    z_target,           \* target_path
    z_overwrite,        \* overwrite_existing
    z_fs,               \* the paths that exist
    z_written,          \* the paths the call created or wrote
    z_entry,            \* file_info of the last iteration
    z_skipped,          \* the last iteration skipped its entry as unsafe
    z_i,                \* entries of the archive processed so far
    z_total,            \* total_files
    z_files_extracted,  \* files_extracted
    z_failed,           \* entries passed over as unsafe or after an exception
    z_pc,               \* "extracting", then "returned"
    \* ---- FileDownloader.download_file (downloader.py) ----
    dl_resume,          \* resume
    dl_file,            \* the file at file_path
    dl_initial,         \* the file at file_path when download_file was called
    dl_existing_size,   \* existing_size
    dl_attempt,         \* attempt of the retry loop
    dl_exchange,        \* Range of the last request and status of its answer
    dl_partial,         \* some failed attempt had written bytes
    dl_result,          \* the DownloadResult returned
    dl_pc,              \* "download_file", "attempt", "returned"
    dl_max_retries,     \* self.max_retries
    dl_calls,           \* calls of _attempt_download made
    dl_sleeps,          \* calls of time.sleep(self.retry_delay) made
    dl_returns,         \* what download_file returned: a DownloadResult or None
    dl_last,            \* the result of the last call of _attempt_download
    \* ---- saving the version state ----
    sv_saver,           \* the function that saves
    sv_disk,            \* the state file on disk
    sv_before,          \* the state file when the save began
    sv_dictionary,      \* the dictionary to save
    sv_pc,              \* "save", "dump", "returned", "killed"
    \* ---- ZipExtractor.extract_obs_installation (extractor.py) ----
    f_archive,          \* file_infos of the archive
    f_valid,            \* zip_info['valid']
    f_target,           \* the tree below target_path
    f_temp,             \* the tree below temp_extract_path
    f_root,             \* root_items[0]
    f_i,                \* entries extract_zip has processed
    f_items,            \* items of nested_dir.iterdir() still to move
    f_success,          \* result.success
    f_files_extracted,  \* result.files_extracted
    f_pc,               \* the step extract_obs_installation is at
    \* ---- loading the version state ----
    ld_loader,          \* the function that loads
    ld_file,            \* the state file on disk
    ld_readable,        \* the process may read the file
    ld_value,           \* installed_versions / downloaded_versions after the load
    ld_pc,              \* "open", "json_load", "returned", "used", "raised"
    \* ---- cancellation during the OBS download (installer.py, downloader.py) ----
    c_unlink_open,      \* the platform unlinks a file that is held open
    c_path,             \* self.current_download_path: "None" or "set"
    c_cancelled,        \* self.cancelled
    c_file,             \* the file at current_download_path
    c_open,             \* f of _attempt_download: closed, open, unlinked
    c_attempt,          \* attempt of the retry loop
    c_chunks,           \* chunks of the body received by this attempt
    c_cancel_at,        \* the step the worker was at when cancel() was called
    c_extracted,        \* _extract_obs_studio returned True
    c_recorded,         \* last_obs_version was set by this run
    c_run,              \* number of the run in progress
    w_pc,               \* the step the worker thread is at
    u_pc,               \* the step the UI thread is at
    \* ---- the two passes of install_downloads (cgg-obs-setup.py) ----
    ip_objects,         \* the keys of self.downloads_status, in order
    ip_success,         \* objects whose download_success is True
    ip_pass,            \* single_target of the pass in progress
    ip_i,               \* position of the loop of the pass
    ip_extracted,       \* the extractions made: object and pass, in order
    ip_pc,              \* "install_downloads", then "returned"
    \* ---- move_directories (cgg-obs-setup.py) ----
    mv_source,          \* the files below installation_directory/<subdir>
    mv_before,          \* the files below it when the move began
    mv_locked,          \* files below the installation root that cannot be written
    mv_dest,            \* per path below the installation root: none, old, new
    mv_todo,            \* items of os.listdir(source_dir) still to copy
    mv_sub_todo,        \* the same for the recursive call
    mv_pc,              \* the step the move is at
    \* ---- the installation directory over GUI runs ----
    sh_obs_archive,     \* entries of the OBS archive
    sh_plugin_files,    \* paths of the files of the plugin archive
    sh_install,         \* nodes of install_path
    sh_record,          \* downloaded_versions[plugin.name].version, "" for none
    sh_cache,           \* local_path of the record exists
    sh_latest,          \* tag_name of the latest plugin release
    sh_options,         \* options of the run
    sh_reported,        \* what the plugin step of the run came to
    sh_extract_result,  \* what the last extract_plugin returned
    sh_run,             \* number of the run
    sh_pc,              \* step of the run
    \* ---- GitHubAPIClient ----
    gh_server,          \* releases the API returns, newest first
    gh_cache,           \* self._cache, with what the storing call returned
    gh_now,             \* time.time()
    gh_last             \* the last call: its cache key, its result, served from the cache

assetVars == <<assets, filename_pattern, matching_asset, fm_pc>>
decideVars == <<d_force, d_pattern, d_record, d_filename, d_tag, d_download, d_pc>>
cliVars == <<json_data, upstream, versions_json, installed_versions, downloads_status,
             cli_pc, cli_i, cli_run, startup_json, downloaded, extracted_ok, run1_clean,
             downloads_dir, extracted_archive>>

guiVars == <<options, last_obs_version, obs_cache, plugin_versions_json, downloaded_versions,
             plugin_files, latest_release, g_pc, g_i, g_run, cancelled, g_processed,
             g_extracted, g_start_obs, g_start_versions, g_nu, current_download_path>>

zipVars == <<z_target, z_overwrite, z_fs, z_written, z_entry, z_skipped, z_i, z_total,
             z_files_extracted, z_failed, z_pc>>

dlVars == <<dl_resume, dl_file, dl_initial, dl_existing_size, dl_attempt, dl_exchange,
            dl_partial, dl_result, dl_pc, dl_max_retries, dl_calls, dl_sleeps, dl_returns,
            dl_last>>

saveVars == <<sv_saver, sv_disk, sv_before, sv_dictionary, sv_pc>>

flatVars == <<f_archive, f_valid, f_target, f_temp, f_root, f_i, f_items, f_success,
             f_files_extracted, f_pc>>

loadVars == <<ld_loader, ld_file, ld_readable, ld_value, ld_pc>>

cancelVars == <<c_unlink_open, c_path, c_cancelled, c_file, c_open, c_attempt, c_chunks,
                c_cancel_at, c_extracted, c_recorded, c_run, w_pc, u_pc>>

passesVars == <<ip_objects, ip_success, ip_pass, ip_i, ip_extracted, ip_pc>>

moveVars == <<mv_source, mv_before, mv_locked, mv_dest, mv_todo, mv_sub_todo, mv_pc>>

sharedVars == <<sh_obs_archive, sh_plugin_files, sh_install, sh_record, sh_cache, sh_latest,
                sh_options, sh_reported, sh_extract_result, sh_run, sh_pc>>

cacheVars == <<gh_server, gh_cache, gh_now, gh_last>>

vars == <<assetVars, decideVars, cliVars, guiVars, zipVars, dlVars, saveVars, flatVars,
          loadVars, cancelVars, passesVars, moveVars, sharedVars, cacheVars>>

NotAsset == <<decideVars, cliVars, guiVars, zipVars, dlVars, saveVars, flatVars, loadVars,
    cancelVars, passesVars, moveVars, sharedVars, cacheVars>>
NotDecide == <<assetVars, cliVars, guiVars, zipVars, dlVars, saveVars, flatVars, loadVars,
    cancelVars, passesVars, moveVars, sharedVars, cacheVars>>
NotCLI == <<assetVars, decideVars, guiVars, zipVars, dlVars, saveVars, flatVars, loadVars,
    cancelVars, passesVars, moveVars, sharedVars, cacheVars>>
NotGUI == <<assetVars, decideVars, cliVars, zipVars, dlVars, saveVars, flatVars, loadVars,
    cancelVars, passesVars, moveVars, sharedVars, cacheVars>>
NotZip == <<assetVars, decideVars, cliVars, guiVars, dlVars, saveVars, flatVars, loadVars,
    cancelVars, passesVars, moveVars, sharedVars, cacheVars>>
NotDL == <<assetVars, decideVars, cliVars, guiVars, zipVars, saveVars, flatVars, loadVars,
    cancelVars, passesVars, moveVars, sharedVars, cacheVars>>
NotSave == <<assetVars, decideVars, cliVars, guiVars, zipVars, dlVars, flatVars, loadVars,
    cancelVars, passesVars, moveVars, sharedVars, cacheVars>>
NotFlat == <<assetVars, decideVars, cliVars, guiVars, zipVars, dlVars, saveVars, loadVars,
    cancelVars, passesVars, moveVars, sharedVars, cacheVars>>
NotLoad == <<assetVars, decideVars, cliVars, guiVars, zipVars, dlVars, saveVars, flatVars,
    cancelVars, passesVars, moveVars, sharedVars, cacheVars>>
NotCancel == <<assetVars, decideVars, cliVars, guiVars, zipVars, dlVars, saveVars, flatVars,
    loadVars, passesVars, moveVars, sharedVars, cacheVars>>
NotPasses == <<assetVars, decideVars, cliVars, guiVars, zipVars, dlVars, saveVars, flatVars,
    loadVars, cancelVars, moveVars, sharedVars, cacheVars>>
NotMove == <<assetVars, decideVars, cliVars, guiVars, zipVars, dlVars, saveVars, flatVars,
    loadVars, cancelVars, passesVars, sharedVars, cacheVars>>
NotShared == <<assetVars, decideVars, cliVars, guiVars, zipVars, dlVars, saveVars, flatVars,
    loadVars, cancelVars, passesVars, moveVars, cacheVars>>
NotCache == <<assetVars, decideVars, cliVars, guiVars, zipVars, dlVars, saveVars, flatVars,
    loadVars, cancelVars, passesVars, moveVars, sharedVars>>
(***************************************************************************)
(* Strings are sequences of one-character strings.                         *)
(***************************************************************************)
Str_zip == <<".", "z", "i", "p">>
Str_7z == <<".", "7", "z">>
Str_windows == <<"w", "i", "n", "d", "o", "w", "s">>
Str_win == <<"w", "i", "n">>
Str_x64 == <<"x", "6", "4">>

\* str.lower() on the characters the model uses
LowerChar(c) ==
    CASE c = "A" -> "a"
      [] c = "Z" -> "z"
      [] c = "W" -> "w"
      [] c = "X" -> "x"
      [] OTHER -> c

Lower(s) == [i \in 1..Len(s) |-> LowerChar(s[i])]

\* `sub in s`
Contains(s, sub) ==
    \E i \in 0..(Len(s) - Len(sub)) :
        \A k \in 1..Len(sub) : s[i + k] = sub[k]

\* s.endswith(suf)
EndsWith(s, suf) ==
    /\ Len(s) >= Len(suf)
    /\ \A k \in 1..Len(suf) : s[Len(s) - Len(suf) + k] = suf[k]

(***************************************************************************)
(* Shell-glob matching: '*' any run of characters, '?' exactly one         *)
(* character, every other character literal.                               *)
(***************************************************************************)
RECURSIVE GlobFrom(_, _, _, _)
GlobFrom(p, i, s, j) ==
    IF i > Len(p) THEN j > Len(s)
    ELSE IF p[i] = "*"
         THEN GlobFrom(p, i + 1, s, j) \/ (j <= Len(s) /\ GlobFrom(p, i, s, j + 1))
    ELSE IF p[i] = "?"
         THEN j <= Len(s) /\ GlobFrom(p, i + 1, s, j + 1)
    ELSE j <= Len(s) /\ s[j] = p[i] /\ GlobFrom(p, i + 1, s, j + 1)

GlobMatch(p, s) == GlobFrom(p, 1, s, 1)

(***************************************************************************)
(* find_matching_asset: the pattern is turned into a regular expression by *)
(* replacing '*' with '.*' and anchoring it, compiled with re.IGNORECASE.  *)
(***************************************************************************)

\* filename_pattern.replace('*', '.*')
RECURSIVE ReplaceStar(_)
ReplaceStar(p) ==
    IF p = <<>> THEN <<>>
    ELSE IF Head(p) = "*" THEN <<".", "*">> \o ReplaceStar(Tail(p))
    ELSE <<Head(p)>> \o ReplaceStar(Tail(p))

\* the last item of a parsed expression, requantified
SetQuant(items, q) == [items EXCEPT ![Len(items)].q = q]

\* re.compile of "^" + p + "$" for p over literals, '.', '*' and '?'.
\* st is what precedes position i: "start" (the '^' anchor), "atom" (an
\* unquantified item), "rep" (a quantified item), "lazy" (quantifier + '?').
\* A quantifier after the anchor raises "nothing to repeat", one after a lazy
\* quantifier (or '*' after a quantifier) raises "multiple repeat".
RECURSIVE re_compile(_, _, _, _)
re_compile(p, i, items, st) ==
    IF i > Len(p) THEN [ok |-> TRUE, items |-> items]
    ELSE IF p[i] = "*"
         THEN IF st = "atom"
              THEN re_compile(p, i + 1, SetQuant(items, "star"), "rep")
              ELSE [ok |-> FALSE, items |-> <<>>]
    ELSE IF p[i] = "?"
         THEN IF st = "atom"
              THEN re_compile(p, i + 1, SetQuant(items, "opt"), "rep")
              ELSE IF st = "rep"
              THEN re_compile(p, i + 1, items, "lazy")
              ELSE [ok |-> FALSE, items |-> <<>>]
    ELSE re_compile(p, i + 1,
                    Append(items, [cls |-> IF p[i] = "." THEN "any" ELSE p[i],
                                   q |-> "one"]),
                    "atom")

\* regex.match(name) for the anchored expression, ignoring case
RECURSIVE regex_match(_, _, _, _)
regex_match(items, k, s, j) ==
    IF k > Len(items) THEN j > Len(s)
    ELSE LET it == items[k]
             hit == /\ j <= Len(s)
                    /\ (it.cls = "any" \/ LowerChar(it.cls) = LowerChar(s[j]))
         IN  CASE it.q = "one" -> hit /\ regex_match(items, k + 1, s, j + 1)
               [] it.q = "opt" -> \/ (hit /\ regex_match(items, k + 1, s, j + 1))
                                  \/ regex_match(items, k + 1, s, j)
               [] it.q = "star" -> \/ regex_match(items, k + 1, s, j)
                                   \/ (hit /\ regex_match(items, k, s, j + 1))

\* least index of a set of list indices, 0 (None) when the set is empty
FirstIndex(S) ==
    IF S = {} THEN 0 ELSE CHOOSE i \in S : \A k \in S : i <= k

IsArchiveName(n) == EndsWith(Lower(n), Str_zip) \/ EndsWith(Lower(n), Str_7z)

IsWindowsX64Name(n) ==
    /\ Contains(Lower(n), Str_windows) \/ Contains(Lower(n), Str_win)
    /\ Contains(Lower(n), Str_x64)
    /\ IsArchiveName(n)

\* the index of the asset find_matching_asset returns, 0 for None
find_matching_asset(as, pat) ==
    LET rx == re_compile(ReplaceStar(pat), 1, <<>>, "start")
        byRegex == FirstIndex({ i \in 1..Len(as) : regex_match(rx.items, 1, as[i], 1) })
        byWinX64 == FirstIndex({ i \in 1..Len(as) : IsWindowsX64Name(as[i]) })
        byArchive == FirstIndex({ i \in 1..Len(as) : IsArchiveName(as[i]) })
    IN  IF ~rx.ok THEN 0              \* re.error: logged, None
        ELSE IF byRegex # 0 THEN byRegex
        ELSE IF byWinX64 # 0 THEN byWinX64
        ELSE byArchive

(***************************************************************************)
(* Inputs of SpecAsset.                                                    *)
(***************************************************************************)
MaxAssets == 2
MaxPatLen == 3

PatChars == {"a", ".", "z", "*", "?"}

AssetNames ==
    { <<"a", ".", "7", "z">>,
      <<"a", "7", "z">>,
      <<"A", ".", "7", "Z">>,
      <<"a", "a", ".", "7", "z">>,
      <<"a", ".", "7", "z", ".", "s", "i", "g">>,
      <<"b", ".", "z", "i", "p">>,
      <<"w", "i", "n", "-", "x", "6", "4", ".", "z", "i", "p">>,
      <<"a", "z">> }

SeqsUpTo(S, n) == UNION { [1..k -> S] : k \in 0..n }

Patterns ==
    SeqsUpTo(PatChars, MaxPatLen) \cup
    { <<"a", ".", "7", "z">>, <<"a", "?", "7", "z">>, <<"a", "*", ".", "7", "z">>,
      <<"*", ".", "7", "z">>, <<"c", "*">> }

FindMatchingAsset ==
    /\ fm_pc = "call"
    /\ matching_asset' = find_matching_asset(assets, filename_pattern)
    /\ fm_pc' = "returned"
    /\ UNCHANGED <<assets, filename_pattern>>
    /\ UNCHANGED NotAsset

(***************************************************************************)
(* Values of the Python code: False, None, and a record that is not there. *)
(***************************************************************************)
PyFalse == <<"False">>      \* False where a filename is expected

\* what installed_versions.get(this_object, defaultdict(...)) gives for an
\* object without a record: .get("filename", False) and .get("tag", False)
NoRecord == [filename |-> PyFalse, tag |-> "False"]

\* not ("?" in filename_pattern or "*" in filename_pattern)
IsStatic(pattern) == ~(Contains(pattern, <<"?">>) \/ Contains(pattern, <<"*">>))

\* download_objects, the decision whether to call download_file.
\* tag is "None" for a forum resource (tag = None is never reassigned).
download_decision(force_download, rec, filename, tag, pattern) ==
    LET installed_version == rec.filename
        installed_tag == rec.tag
        installed_matches == installed_version = filename
        static_name == IsStatic(pattern)      \* assigned, never read
        tags_match == IF tag = "None" THEN TRUE ELSE tag = installed_tag
    IN  ~tags_match \/ ~installed_matches \/ force_download

\* the decision policy of the Version Tracker, in precedence order
PolicyNeedsUpdate(force, rec, filename, tag, pattern) ==
    IF force THEN TRUE
    ELSE IF rec = NoRecord THEN TRUE
    ELSE IF tag # "None" /\ tag # rec.tag THEN TRUE
    ELSE IF IsStatic(pattern) /\ rec.filename # filename THEN TRUE
    ELSE FALSE

DecidePatterns == { <<"a", ".", "z", "i", "p">>, <<"a", "*", ".", "z", "i", "p">> }

DecideNames ==
    { <<"a", ".", "z", "i", "p">>, <<"a", "1", ".", "z", "i", "p">>,
      <<"a", "2", ".", "z", "i", "p">> }

Decide ==
    /\ d_pc = "decide"
    /\ d_download' = download_decision(d_force, d_record, d_filename, d_tag, d_pattern)
    /\ d_pc' = "decided"
    /\ UNCHANGED <<d_force, d_pattern, d_record, d_filename, d_tag>>
    /\ UNCHANGED NotDecide

(***************************************************************************)
(* The cggOBS pipeline of cgg-obs-setup.py: main() runs download_objects,  *)
(* install_downloads("OBS"), install_downloads(), write_installed_versions.*)
(* A run is one process; the next run starts from what is on disk.         *)
(***************************************************************************)
NumObjects == 2
MaxRuns == 2

\* the configured objects, in the order of the configuration document
ObjectNames == <<"OBS", "A", "obs", "B">>

KindOf(name) == IF name \in {"OBS", "obs"} THEN "github" ELSE "obsproject"

\* download_object.lower()
NameLower(name) ==
    CASE name = "OBS" -> "obs"
      [] name = "A" -> "a"
      [] name = "B" -> "b"
      [] OTHER -> name

Objs == { ObjectNames[i] : i \in 1..NumObjects }

CurrentTag == "v2"
OldTag == "v1"
OldName == <<"o", ".", "z", "i", "p">>

UpstreamNames ==
    { <<"a", ".", "z", "i", "p">>, <<"b", ".", "7", "z">>, <<"c", ".", "e", "x", "e">> }

CurrentName == <<"a", ".", "z", "i", "p">>

\* what get_github_project_download_url / get_obs_project_download_url return
NotFound(name) ==
    [found |-> FALSE, raised |-> FALSE, filename |-> PyFalse,
     tag |-> IF KindOf(name) = "github" THEN "False" ELSE "None"]

Found(name, fn) ==
    [found |-> TRUE, raised |-> FALSE, filename |-> fn,
     tag |-> IF KindOf(name) = "github" THEN CurrentTag ELSE "None"]

\* get_github_project_download_url, line 540: json.loads(json_data)[0] of an
\* empty release list raises IndexError
EmptyReleaseList == [found |-> FALSE, raised |-> TRUE, filename |-> PyFalse, tag |-> "False"]

Resolutions(name) ==
    {NotFound(name)} \cup { Found(name, fn) : fn \in UpstreamNames }
        \cup (IF KindOf(name) = "github" THEN {EmptyReleaseList} ELSE {})

\* the records an earlier run can have written for an object
RecordsOf(name) ==
    IF KindOf(name) = "github"
    THEN {NoRecord, [filename |-> CurrentName, tag |-> CurrentTag],
                    [filename |-> OldName, tag |-> OldTag]}
    ELSE {NoRecord, [filename |-> CurrentName, tag |-> "False"],
                    [filename |-> OldName, tag |-> "False"]}

NoRecords == [o \in Objs |-> NoRecord]

VersionFiles ==
    { [state |-> "absent", recs |-> NoRecords], [state |-> "invalid", recs |-> NoRecords] }
    \cup { [state |-> "valid", recs |-> r] :
             r \in { f \in [Objs -> UNION { RecordsOf(o) : o \in Objs }] :
                       /\ \A o \in Objs : f[o] \in RecordsOf(o)
                       /\ f # NoRecords } }    \* an empty mapping is never written

\* the records a versions.json holds
FileRecs(file) == IF file.state = "valid" THEN file.recs ELSE NoRecords

\* read_json_file: json.load gives a plain dict; a missing file or invalid
\* JSON gives an empty defaultdict
read_json_file(file) ==
    IF file.state = "valid"
    THEN [plain |-> TRUE, recs |-> file.recs]
    ELSE [plain |-> FALSE, recs |-> NoRecords]

NoStatus ==
    [present |-> FALSE, download_success |-> "absent", filename |-> PyFalse,
     tag |-> "False", installed |-> "absent"]

cliConfig == <<json_data, upstream>>

\* the loop of the current step moves to its next item, or the step ends
Advance(nextStep) ==
    IF cli_i < NumObjects
    THEN cli_i' = cli_i + 1 /\ cli_pc' = cli_pc
    ELSE cli_i' = 1 /\ cli_pc' = nextStep

\* one iteration of the loop of download_objects
DownloadObject ==
    /\ cli_pc = "download_objects"
    /\ LET values == json_data[cli_i]
           this_object == values.name
           up == upstream[this_object]
           rec == installed_versions.recs[this_object]
           download == download_decision(values.force_download, rec,
                                         up.filename, up.tag, values.filename)
       IN  IF values.filename = <<>> \/ values.kind \notin {"obsproject", "github"}
           THEN /\ Advance("install_obs")
                /\ UNCHANGED <<downloads_status, downloaded, run1_clean, downloads_dir>>
           ELSE IF up.raised
           THEN \* the exception leaves download_objects and main()
                /\ cli_pc' = "raised"
                /\ run1_clean' = (run1_clean /\ cli_run # 1)
                /\ UNCHANGED <<downloads_status, downloaded, downloads_dir, cli_i>>
           ELSE IF ~download
           THEN /\ Advance("install_obs")
                /\ UNCHANGED <<downloads_status, downloaded, run1_clean, downloads_dir>>
           ELSE \E success \in (IF up.found THEN BOOLEAN ELSE {FALSE}) :
                  /\ Advance("install_obs")
                  /\ downloads_dir' =
                        IF success
                        THEN [downloads_dir EXCEPT ![up.filename] = this_object]
                        ELSE downloads_dir
                  /\ downloads_status' =
                        [downloads_status EXCEPT ![this_object] =
                            [present |-> TRUE,
                             download_success |-> IF success THEN "True" ELSE "False",
                             filename |-> up.filename,
                             tag |-> IF success /\ values.kind = "github"
                                     THEN up.tag ELSE "False",
                             installed |-> "absent"]]
                  /\ downloaded' = downloaded \cup {this_object}
                  /\ run1_clean' = (run1_clean /\ (cli_run = 1 => success))
    /\ UNCHANGED <<cliConfig, versions_json, installed_versions, cli_run,
                   startup_json, extracted_ok, extracted_archive>>
    /\ UNCHANGED NotCLI

\* filename[filename_len - 3:].lower() == "zip", filename[filename_len - 2:].lower() == "7z"
IsZipName(fn) == EndsWith(Lower(fn), <<"z", "i", "p">>)
Is7zName(fn) == EndsWith(Lower(fn), <<"7", "z">>)

\* install_downloads, lines 215-219: the record after an extraction
install_record_always(iv, name, filename, tag, extraction_success) ==
    [iv EXCEPT !.recs[name] =
        [filename |-> filename, tag |-> IF tag # "False" THEN tag ELSE @.tag]]

install_record(iv, name, filename, tag, extraction_success) ==
    IF extraction_success
    THEN [iv EXCEPT !.recs[name] =
            [filename |-> filename, tag |-> IF tag # "False" THEN tag ELSE @.tag]]
    ELSE iv

\* one iteration of the loop of install_downloads(single_target)
InstallIteration(single_target, nextStep) ==
    LET download_object == json_data[cli_i].name
        values == downloads_status[download_object]
        skipped ==
            \/ ~values.present
            \/ values.download_success # "True"
            \/ (single_target # "False" /\ download_object # single_target)
            \/ (single_target = "False" /\ NameLower(download_object) = "obs")
        archive == IsZipName(values.filename) \/ Is7zName(values.filename)
    IN  IF skipped
        THEN /\ Advance(nextStep)
             /\ UNCHANGED <<downloads_status, installed_versions, extracted_ok, run1_clean,
                            extracted_archive>>
        ELSE \E extraction_success \in (IF archive THEN BOOLEAN ELSE {FALSE}) :
               \* the archive read is the file of that name in the downloads directory
               /\ extracted_archive' =
                     IF archive
                     THEN [extracted_archive EXCEPT
                              ![download_object] = downloads_dir[values.filename]]
                     ELSE extracted_archive
               /\ extracted_ok' = IF extraction_success
                                  THEN extracted_ok \cup {download_object}
                                  ELSE extracted_ok
               /\ run1_clean' = (run1_clean /\ (cli_run = 1 => extraction_success))
               /\ IF /\ extraction_success
                     /\ installed_versions.plain
                     /\ installed_versions.recs[download_object] = NoRecord
                  THEN \* self.installed_versions[download_object]: KeyError
                       /\ cli_pc' = "crashed"
                       /\ cli_i' = cli_i
                       /\ downloads_status' =
                             [downloads_status EXCEPT
                                 ![download_object].download_success = "absent"]
                       /\ UNCHANGED installed_versions
                  ELSE /\ Advance(nextStep)
                       /\ installed_versions' =
                             install_record(installed_versions, download_object,
                                            values.filename, values.tag,
                                            extraction_success)
                       /\ downloads_status' =
                             [downloads_status EXCEPT
                                 ![download_object].download_success = "absent",
                                 ![download_object].installed =
                                     IF extraction_success THEN "True"
                                     ELSE IF archive THEN "absent" ELSE "False"]

InstallObs ==
    /\ cli_pc = "install_obs"
    /\ InstallIteration("OBS", "install_rest")
    /\ UNCHANGED <<cliConfig, versions_json, cli_run, startup_json, downloaded,
                   downloads_dir>>
    /\ UNCHANGED NotCLI

InstallRest ==
    /\ cli_pc = "install_rest"
    /\ InstallIteration("False", "write")
    /\ UNCHANGED <<cliConfig, versions_json, cli_run, startup_json, downloaded,
                   downloads_dir>>
    /\ UNCHANGED NotCLI

\* write_installed_versions: nothing is written for an empty mapping;
\* write_dict_to_file logs an IOError and returns
WriteInstalledVersions ==
    /\ cli_pc = "write"
    /\ IF installed_versions.recs = NoRecords
       THEN UNCHANGED <<versions_json, run1_clean>>
       ELSE \E written \in BOOLEAN :
              /\ versions_json' =
                    IF written
                    THEN [state |-> "valid", recs |-> installed_versions.recs]
                    ELSE versions_json
              /\ run1_clean' = (run1_clean /\ (cli_run = 1 => written))
    /\ cli_pc' = "done"
    /\ UNCHANGED <<cliConfig, installed_versions, downloads_status, cli_i, cli_run,
                   startup_json, downloaded, extracted_ok, downloads_dir,
                   extracted_archive>>
    /\ UNCHANGED NotCLI

\* the tool is started again: cggOBS.__init__
StartNextRun ==
    /\ cli_pc \in {"done", "crashed", "raised"}
    /\ cli_run < MaxRuns
    /\ cli_run' = cli_run + 1
    /\ installed_versions' = read_json_file(versions_json)
    /\ downloads_status' = [o \in Objs |-> NoStatus]
    /\ startup_json' = versions_json
    /\ downloaded' = {}
    /\ extracted_ok' = {}
    /\ downloads_dir' = [fn \in UpstreamNames |-> "none"]
    /\ extracted_archive' = [o \in Objs |-> "none"]
    /\ cli_pc' = "download_objects"
    /\ cli_i' = 1
    /\ UNCHANGED <<cliConfig, versions_json, run1_clean>>
    /\ UNCHANGED NotCLI

(***************************************************************************)
(* The GUI pipeline: InstallationWorker.run (installer.py) installs OBS    *)
(* Studio and then calls OBSPluginManager.download_all_plugins             *)
(* (plugin_manager.py). A run is one worker; the next run starts from the  *)
(* configuration, the download cache and plugin_versions.json left behind. *)
(***************************************************************************)
NumPlugins == 2
MaxGuiRuns == 2

\* plugins.json, in order: name and source_type of each plugin
PluginNames == <<"P1", "P2", "P3">>

Plugins == { PluginNames[i] : i \in 1..NumPlugins }

source_type(p) == IF p = "P2" THEN "obsproject" ELSE "github"

ReleaseTags == {"v1", "v2"}
ReleaseDates == {"d1", "d2"}

\* OBSInstaller release of github_client: tag_name, and whether it has a Windows x64 asset
NoRelease == [tag_name |-> "", has_asset |-> FALSE]
Releases == [tag_name : ReleaseTags, has_asset : BOOLEAN]

\* a PluginVersion of downloaded_versions, and the absence of one
NoPluginVersion == [version |-> "", release_date |-> ""]

\* what get_github_release_info and find_matching_asset give for a plugin
NoReleaseInfo == [found |-> FALSE, tag_name |-> "", published_at |-> "", asset |-> FALSE]
ReleaseInfos ==
    {NoReleaseInfo} \cup
    [found : {TRUE}, tag_name : ReleaseTags, published_at : ReleaseDates, asset : BOOLEAN]

\* a call of needs_update that has not happened
NoCall ==
    [called |-> FALSE, has_record |-> FALSE, current |-> NoPluginVersion,
     file_exists |-> FALSE, latest_version |-> "", latest_date |-> "", result |-> FALSE]

\* needs_update that compares the version only
needs_update_version_only(has_record, current, file_exists, latest_version, latest_date) ==
    IF ~has_record THEN TRUE
    ELSE latest_version # "" /\ current.version # latest_version

\* OBSPluginManager.needs_update
needs_update(has_record, current, file_exists, latest_version, latest_date) ==
    IF ~has_record THEN TRUE
    ELSE IF ~file_exists THEN TRUE
    ELSE IF latest_version # "" /\ current.version # latest_version THEN TRUE
    ELSE IF latest_date # "" /\ current.release_date # latest_date THEN TRUE
    ELSE FALSE

\* the first step of run(): options.get('reinstall_obs'), options.get('install_plugins')
FirstStep(opts) ==
    IF opts.reinstall_obs THEN "get_latest_release" ELSE "download_plugins"

GuiOptions == [reinstall_obs : BOOLEAN, install_plugins : BOOLEAN]

guiDisk == <<last_obs_version, obs_cache, plugin_versions_json, plugin_files>>
guiPlugins == <<plugin_versions_json, downloaded_versions, plugin_files, g_i, g_nu>>
guiRun == <<options, g_run, g_start_obs, g_start_versions>>

\* run(), lines 66-71: _get_latest_release; no release ends the run
GetLatestRelease ==
    /\ g_pc = "get_latest_release"
    /\ \E rel \in Releases \cup {NoRelease} :
          /\ latest_release' = rel
          /\ g_processed' = g_processed \cup {"OBS"}
          /\ g_pc' = IF rel = NoRelease THEN "finished" ELSE "check_if_download_needed"
    /\ UNCHANGED <<guiDisk, guiRun, downloaded_versions, g_i, g_nu, cancelled, g_extracted,
                   current_download_path>>
    /\ UNCHANGED NotGUI

\* _check_if_download_needed, and the "use existing download" branch of run()
CheckIfDownloadNeeded ==
    /\ g_pc = "check_if_download_needed"
    /\ IF ~latest_release.has_asset
       THEN /\ g_pc' = "download_obs_release"
            /\ UNCHANGED last_obs_version
       ELSE IF obs_cache # "none"
       THEN /\ last_obs_version' = latest_release.tag_name
            /\ g_pc' = "extract_obs_studio"
       ELSE /\ g_pc' = "download_obs_release"
            /\ UNCHANGED last_obs_version
    /\ UNCHANGED <<obs_cache, guiPlugins, guiRun, latest_release, cancelled,
                   current_download_path,
                   g_processed, g_extracted>>
    /\ UNCHANGED NotGUI

\* _download_obs_release: None without an asset or when download_file fails,
\* which may leave a partial file in the cache
DownloadObsRelease ==
    /\ g_pc = "download_obs_release"
    /\ \/ /\ ~latest_release.has_asset
          /\ g_pc' = "finished"
          /\ UNCHANGED obs_cache
       \/ /\ latest_release.has_asset
          /\ obs_cache' = "complete"
          /\ g_pc' = "extract_obs_studio"
       \/ /\ latest_release.has_asset
          /\ obs_cache' \in {obs_cache, "partial"}
          /\ g_pc' = "finished"
    /\ latest_release' = IF g_pc' = "finished" THEN NoRelease ELSE latest_release
    /\ current_download_path' =
          IF latest_release.has_asset THEN "set" ELSE current_download_path
    /\ UNCHANGED <<last_obs_version, guiPlugins, guiRun, cancelled, g_processed, g_extracted>>
    /\ UNCHANGED NotGUI

\* run(), lines 94-102: the cancellation check, then _extract_obs_studio
ExtractObsStudio ==
    /\ g_pc = "extract_obs_studio"
    /\ IF cancelled
       THEN /\ g_pc' = "finished"
            /\ UNCHANGED g_extracted
       ELSE \E success \in BOOLEAN :
               /\ success => obs_cache = "complete"
               /\ IF success
                  THEN /\ g_extracted' = g_extracted \cup {"OBS"}
                       /\ g_pc' = "update_configuration"
                  ELSE /\ g_pc' = "finished"
                       /\ UNCHANGED g_extracted
    /\ latest_release' = IF g_pc' = "finished" THEN NoRelease ELSE latest_release
    /\ UNCHANGED <<guiDisk, guiPlugins, guiRun, cancelled, g_processed,
                   current_download_path>>
    /\ UNCHANGED NotGUI

\* run(), lines 104-108: the cancellation check, then _update_configuration
UpdateConfiguration ==
    /\ g_pc = "update_configuration"
    /\ IF cancelled
       THEN /\ g_pc' = "finished"
            /\ UNCHANGED last_obs_version
       ELSE /\ last_obs_version' = latest_release.tag_name
            /\ g_pc' = "download_plugins"
    /\ latest_release' = NoRelease
    /\ UNCHANGED <<obs_cache, guiPlugins, guiRun, cancelled, g_processed, g_extracted,
                   current_download_path>>
    /\ UNCHANGED NotGUI

\* run(), lines 113-117, and _download_plugins up to the loop: the plugin
\* manager is constructed, which loads plugin_versions.json
DownloadPlugins ==
    /\ g_pc = "download_plugins"
    /\ IF options.install_plugins
       THEN /\ downloaded_versions' = plugin_versions_json
            /\ g_i' = 1
            /\ g_pc' = "download_all_plugins"
       ELSE /\ g_pc' = "finished"
            /\ UNCHANGED <<downloaded_versions, g_i>>
    /\ UNCHANGED <<guiDisk, guiRun, g_nu, latest_release, cancelled,
                   current_download_path,
                   g_processed, g_extracted>>
    /\ UNCHANGED NotGUI

\* download_plugin: the record is stored and saved when download_file
\* succeeded, then extract_plugin is called and its result dropped
download_plugin(p, version, release_date) ==
    \/ \* download_file failed; what it wrote stays
       /\ plugin_files' \in {plugin_files, plugin_files \cup {p}}
       /\ UNCHANGED <<downloaded_versions, plugin_versions_json, g_extracted>>
    \/ \* download_file succeeded
       /\ plugin_files' = plugin_files \cup {p}
       /\ downloaded_versions' =
             [downloaded_versions EXCEPT ![p] = [version |-> version, release_date |-> release_date]]
       /\ plugin_versions_json' = downloaded_versions'       \* save_version_tracking
       /\ \E extracted \in BOOLEAN :
             g_extracted' = IF extracted THEN g_extracted \cup {p} ELSE g_extracted

\* download_github_plugin
download_github_plugin(p) ==
    \E info \in ReleaseInfos :
        IF ~info.found \/ ~info.asset
        THEN /\ g_nu' = NoCall
             /\ UNCHANGED <<downloaded_versions, plugin_versions_json, plugin_files,
                            g_extracted>>
        ELSE LET has_record == downloaded_versions[p] # NoPluginVersion
                 current == downloaded_versions[p]
                 file_exists == p \in plugin_files
                 result == needs_update(has_record, current, file_exists,
                                        info.tag_name, info.published_at)
             IN  /\ g_nu' = [called |-> TRUE, has_record |-> has_record, current |-> current,
                             file_exists |-> file_exists, latest_version |-> info.tag_name,
                             latest_date |-> info.published_at, result |-> result]
                 /\ IF result
                    THEN download_plugin(p, info.tag_name, info.published_at)
                    ELSE UNCHANGED <<downloaded_versions, plugin_versions_json, plugin_files,
                                     g_extracted>>

\* download_obsproject_plugin: skipped when downloaded less than a day ago
download_obsproject_plugin(p) ==
    /\ g_nu' = NoCall
    /\ \/ \* no download URL found on the page
          /\ UNCHANGED <<downloaded_versions, plugin_versions_json, plugin_files, g_extracted>>
       \/ \* downloaded recently and the file is still there
          /\ downloaded_versions[p] # NoPluginVersion
          /\ p \in plugin_files
          /\ UNCHANGED <<downloaded_versions, plugin_versions_json, plugin_files,
                         g_extracted>>
       \/ \* version is the resource id of source_path, release_date is today
          \E today \in ReleaseDates : download_plugin(p, "v1", today)

\* one iteration of the loop of download_all_plugins
DownloadAllPlugins ==
    /\ g_pc = "download_all_plugins"
    /\ g_i \in 1..NumPlugins
    /\ LET p == PluginNames[g_i]
       IN  /\ g_processed' = g_processed \cup {p}
           /\ IF source_type(p) = "github"
              THEN download_github_plugin(p)
              ELSE download_obsproject_plugin(p)
    /\ g_i' = g_i + 1
    /\ g_pc' = IF g_i = NumPlugins THEN "finished" ELSE g_pc
    /\ UNCHANGED <<last_obs_version, obs_cache, guiRun, latest_release, cancelled,
                   current_download_path>>
    /\ UNCHANGED NotGUI

\* InstallationWorker.cancel, called from the UI thread while the worker runs:
\* the flag is set, and the file at current_download_path is removed
Cancel ==
    /\ g_pc \notin {"idle", "finished"}
    /\ ~cancelled
    /\ cancelled' = TRUE
    /\ obs_cache' = IF current_download_path = "set" /\ obs_cache # "none"
                    THEN "none"            \* cleanup_partial_download: unlink
                    ELSE obs_cache
    /\ UNCHANGED <<last_obs_version, plugin_versions_json, plugin_files, current_download_path>>
    /\ UNCHANGED <<guiRun, downloaded_versions, g_i, g_nu, latest_release, g_pc,
                   g_processed, g_extracted>>
    /\ UNCHANGED NotGUI

\* the next run: a new worker, started with the same options
StartNextGuiRun ==
    /\ g_pc = "finished"
    /\ g_run < MaxGuiRuns
    /\ g_run' = g_run + 1
    /\ options' = options
    /\ g_pc' = FirstStep(options')
    /\ latest_release' = NoRelease
    /\ g_i' = 1
    /\ cancelled' = FALSE
    /\ g_processed' = {}
    /\ g_extracted' = {}
    /\ g_start_obs' = last_obs_version
    /\ g_start_versions' = plugin_versions_json
    /\ g_nu' = NoCall
    /\ current_download_path' = "None"
    /\ UNCHANGED <<guiDisk, downloaded_versions>>
    /\ UNCHANGED NotGUI

(***************************************************************************)
(* ZipExtractor.extract_zip (extractor.py). A path is the sequence of its  *)
(* components below the drive root. The installer runs on Windows, where   *)
(* the system collapses ".." before it touches the file system, so an      *)
(* entry is written at the path its name resolves to.                      *)
(***************************************************************************)
MaxEntries == 2
MaxDepth == 2

NameParts == {"a", "..", "link"}

\* ZipInfo of the archive: filename (split at "/"), whether it starts at the
\* root, and is_dir()
Entries ==
    [parts : UNION { [1..k -> NameParts] : k \in 1..MaxDepth },
     absolute : BOOLEAN, is_dir : BOOLEAN]

NoEntry == [parts |-> <<>>, absolute |-> FALSE, is_dir |-> FALSE]

TargetPaths == { <<"inst">>, <<"inst", "a">> }

\* a directory junction that is already in the install directory
LinkSource == <<"inst", "link">>
LinkTarget == <<"out">>

\* target_dir / file_path: an absolute right operand replaces the left one
PathJoin(target_dir, entry) ==
    IF entry.absolute THEN entry.parts ELSE target_dir \o entry.parts

\* Path.resolve(): ".." removes a component, a junction is followed
RECURSIVE resolve_from(_, _, _)
resolve_from(done, parts, i) ==
    IF i > Len(parts) THEN done
    ELSE LET c == parts[i]
             step == IF c = ".."
                     THEN (IF done = <<>> THEN <<>> ELSE SubSeq(done, 1, Len(done) - 1))
                     ELSE Append(done, c)
             followed == IF step = LinkSource THEN LinkTarget ELSE step
         IN  resolve_from(followed, parts, i + 1)

resolve(parts) == resolve_from(<<>>, parts, 1)

\* PurePath.is_relative_to
is_relative_to(path, other) ==
    /\ Len(other) <= Len(path)
    /\ SubSeq(path, 1, Len(other)) = other

\* _is_safe_path with the check left out
is_safe_path_unchecked(entry, target_dir) == TRUE

\* ZipExtractor._is_safe_path
is_safe_path(entry, target_dir) ==
    is_relative_to(resolve(PathJoin(target_dir, entry)), resolve(target_dir))

\* the directories mkdir(parents=True) creates on the way to path
Ancestors(path, existing) ==
    { SubSeq(path, 1, k) : k \in 1..Len(path) } \ existing

\* Path.parent
Parent(path) == IF path = <<>> THEN <<>> ELSE SubSeq(path, 1, Len(path) - 1)

\* the except clause of the loop body ends with "continue": the loop goes on
\* with the entry after entry number i
\* the same with the loop left at the first exception
after_entry_error_abort(i, total) ==
    total

after_entry_error(i, total) ==
    i + 1

\* one iteration of the loop of extract_zip over file_infos
ExtractEntry ==
    /\ z_pc = "extracting"
    /\ z_i < z_total
    /\ \E file_info \in Entries :
          LET target_file_path == resolve(PathJoin(z_target, file_info))
          IN  /\ z_entry' = file_info
              /\ IF ~is_safe_path(file_info, z_target)
                 THEN \* "Skipping unsafe path"
                      /\ z_skipped' = TRUE
                      /\ z_failed' = z_failed + 1
                      /\ z_i' = z_i + 1
                      /\ UNCHANGED <<z_fs, z_written, z_files_extracted>>
                 ELSE IF target_file_path \in z_fs /\ ~z_overwrite
                 THEN \* skipped as existing, counted as extracted
                      /\ z_skipped' = FALSE
                      /\ z_files_extracted' = z_files_extracted + 1
                      /\ z_i' = z_i + 1
                      /\ UNCHANGED <<z_fs, z_written, z_failed>>
                 ELSE IF file_info.is_dir
                 THEN \/ \* target_file_path.mkdir(parents=True, exist_ok=True)
                         /\ z_skipped' = FALSE
                         /\ z_written' = z_written \cup Ancestors(target_file_path, z_fs)
                         /\ z_fs' = z_fs \cup Ancestors(target_file_path, z_fs)
                         /\ z_files_extracted' = z_files_extracted + 1
                         /\ z_i' = z_i + 1
                         /\ UNCHANGED z_failed
                      \/ \* mkdir raised
                         /\ z_skipped' = FALSE
                         /\ z_failed' = z_failed + 1
                         /\ z_i' = after_entry_error(z_i, z_total)
                         /\ UNCHANGED <<z_fs, z_written, z_files_extracted>>
                 ELSE \/ \* _extract_single_file: parent.mkdir, then the file is written
                         /\ z_skipped' = FALSE
                         /\ z_written' = z_written \cup Ancestors(Parent(target_file_path), z_fs)
                                                   \cup {target_file_path}
                         /\ z_fs' = z_fs \cup Ancestors(target_file_path, z_fs)
                         /\ z_files_extracted' = z_files_extracted + 1
                         /\ z_i' = z_i + 1
                         /\ UNCHANGED z_failed
                      \/ \* open or the copy raised after the parent was made
                         /\ z_skipped' = FALSE
                         /\ z_written' = z_written \cup Ancestors(Parent(target_file_path), z_fs)
                         /\ z_fs' = z_fs \cup Ancestors(Parent(target_file_path), z_fs)
                         /\ z_failed' = z_failed + 1
                         /\ z_i' = after_entry_error(z_i, z_total)
                         /\ UNCHANGED z_files_extracted
    /\ UNCHANGED <<z_target, z_overwrite, z_total, z_pc>>
    /\ UNCHANGED NotZip

\* extract_zip returns ExtractionResult(success=True, ...)
ExtractZipReturn ==
    /\ z_pc = "extracting"
    /\ z_i = z_total
    /\ z_pc' = "returned"
    /\ UNCHANGED <<z_target, z_overwrite, z_fs, z_written, z_entry, z_skipped, z_i, z_total,
                   z_files_extracted, z_failed>>
    /\ UNCHANGED NotZip

(***************************************************************************)
(* FileDownloader.download_file (downloader.py). The remote content is a   *)
(* sequence of distinct bytes; the destination is absent or holds a        *)
(* sequence of bytes.                                                      *)
(***************************************************************************)
MaxBytes == 3

\* default of max_retries in FileDownloader.__init__
max_retries == 3

\* the content at the URL
RemoteContent == [i \in 1..MaxBytes |-> i]

\* bytes of an older file cached under the same name
StaleContent == <<9, 9>>

Absent == [exists |-> FALSE, content |-> <<>>]
Holding(bytes) == [exists |-> TRUE, content |-> bytes]

Prefix(s, n) == SubSeq(s, 1, n)
Suffix(s, n) == SubSeq(s, n + 1, Len(s))     \* the bytes from offset n

NoResult == [success |-> FALSE, http_status |-> 0]

\* no request sent yet: Range header of the request and status of the answer
NoRange == -1
NoExchange == [range |-> NoRange, status |-> 0]

ErrorStatuses == {404, 416}

\* download_file, lines 122-143: existing_size is read once, before the loop;
\* range(1, max_retries + 1) is empty for max_retries < 1, the function then
\* reaches its end and returns None
DownloadFileStart ==
    /\ dl_pc = "download_file"
    /\ dl_existing_size' = IF dl_resume /\ dl_file.exists THEN Len(dl_file.content) ELSE 0
    /\ IF dl_max_retries < 1
       THEN /\ dl_pc' = "returned"
            /\ dl_returns' = "None"
            /\ UNCHANGED dl_attempt
       ELSE /\ dl_attempt' = 1
            /\ dl_pc' = "attempt"
            /\ UNCHANGED dl_returns
    /\ UNCHANGED <<dl_resume, dl_file, dl_initial, dl_exchange, dl_partial, dl_result,
                   dl_max_retries, dl_calls, dl_sleeps, dl_last>>
    /\ UNCHANGED NotDL

\* open(file_path, mode) followed by the writes of the chunks in body
write_chunks(file, mode, body) ==
    IF mode = "ab" /\ file.exists
    THEN Holding(file.content \o body)
    ELSE Holding(body)

\* the retry loop of download_file after an attempt that did not succeed
retry_or_return(result) ==
    IF dl_attempt < dl_max_retries
    THEN \* time.sleep(self.retry_delay)
         /\ dl_sleeps' = dl_sleeps + 1
         /\ dl_attempt' = dl_attempt + 1
         /\ dl_pc' = "attempt"
         /\ UNCHANGED <<dl_result, dl_returns>>
    ELSE /\ dl_result' = result
         /\ dl_returns' = "DownloadResult"
         /\ dl_pc' = "returned"
         /\ UNCHANGED <<dl_attempt, dl_sleeps>>

\* one iteration of the retry loop: _attempt_download and what follows it
AttemptDownload ==
    /\ dl_pc = "attempt"
    /\ dl_calls' = dl_calls + 1
    /\ LET ranged == dl_existing_size > 0
           mode == IF ranged THEN "ab" ELSE "wb"
           range == IF ranged THEN dl_existing_size ELSE NoRange
       IN  \/ \* timeout or connection error before any answer
              /\ dl_exchange' = [range |-> range, status |-> 0]
              /\ dl_last' = [success |-> FALSE, http_status |-> 0]
              /\ retry_or_return([success |-> FALSE, http_status |-> 0])
              /\ UNCHANGED <<dl_file, dl_partial>>
           \/ \* an answer whose status is neither 200 nor 206
              \E status \in ErrorStatuses :
                 /\ dl_exchange' = [range |-> range, status |-> status]
                 /\ dl_last' = [success |-> FALSE, http_status |-> status]
                 /\ retry_or_return([success |-> FALSE, http_status |-> status])
                 /\ UNCHANGED <<dl_file, dl_partial>>
           \/ \* 200 with the whole content, or 206 with the bytes from the offset
              \E status \in {200, 206} :
                 /\ status = 206 => (ranged /\ dl_existing_size < MaxBytes)
                 /\ LET body == IF status = 206
                                THEN Suffix(RemoteContent, dl_existing_size)
                                ELSE RemoteContent
                    IN  \/ \* every chunk arrives
                           /\ dl_file' = write_chunks(dl_file, mode, body)
                           /\ dl_exchange' = [range |-> range, status |-> status]
                           /\ dl_result' = [success |-> TRUE, http_status |-> status]
                           /\ dl_last' = [success |-> TRUE, http_status |-> status]
                           /\ dl_returns' = "DownloadResult"
                           /\ dl_pc' = "returned"
                           /\ UNCHANGED <<dl_attempt, dl_partial, dl_sleeps>>
                        \/ \* the connection breaks after k bytes of the body
                           \E k \in 0..(Len(body) - 1) :
                              /\ dl_file' = write_chunks(dl_file, mode, Prefix(body, k))
                              /\ dl_exchange' = [range |-> range, status |-> status]
                              /\ dl_partial' = (dl_partial \/ k > 0)
                              /\ dl_last' = [success |-> FALSE, http_status |-> 0]
                              /\ retry_or_return([success |-> FALSE, http_status |-> 0])
    /\ UNCHANGED <<dl_resume, dl_initial, dl_existing_size, dl_max_retries>>
    /\ UNCHANGED NotDL

(***************************************************************************)
(* Saving the version state: write_dict_to_file (cgg-obs-setup.py) and     *)
(* OBSPluginManager.save_version_tracking (plugin_manager.py) open the     *)
(* state file with mode "w" and json.dump the dictionary into it. The file *)
(* is a sequence of tokens; the process can be killed between any two      *)
(* writes.                                                                 *)
(***************************************************************************)
NumKeys == 2

KeyNames == <<"A", "B", "C">>

\* a version state: the recorded version of each object, 0 for no record
VersionStates == [1..NumKeys -> 0..2]

\* the tokens of a JSON text: a brace, or the record of a key
OpenBrace == <<"{", 0>>
CloseBrace == <<"}", 0>>

\* json.dump: "{", one token per record in key order, "}"
RECURSIVE dump_from(_, _)
dump_from(dictionary, i) ==
    IF i > NumKeys THEN <<CloseBrace>>
    ELSE IF dictionary[i] = 0 THEN dump_from(dictionary, i + 1)
    ELSE <<<<KeyNames[i], dictionary[i]>>>> \o dump_from(dictionary, i + 1)

json_dump(dictionary) == <<OpenBrace>> \o dump_from(dictionary, 1)

\* json.load: the dictionary of a complete text, JSONDecodeError otherwise
json_load(text) ==
    IF Len(text) >= 2 /\ text[1] = OpenBrace /\ text[Len(text)] = CloseBrace
    THEN [ok |-> TRUE,
          data |-> [i \in 1..NumKeys |->
                      IF \E j \in 2..(Len(text) - 1) : text[j][1] = KeyNames[i]
                      THEN text[CHOOSE j \in 2..(Len(text) - 1) : text[j][1] = KeyNames[i]][2]
                      ELSE 0]]
    ELSE [ok |-> FALSE, data |-> [i \in 1..NumKeys |-> 0]]

NoFile == [exists |-> FALSE, text |-> <<>>]
FileWith(text) == [exists |-> TRUE, text |-> text]

Savers == {"write_dict_to_file", "save_version_tracking"}

\* write_installed_versions does not save an empty dictionary
Saveable(saver) ==
    IF saver = "write_dict_to_file"
    THEN { d \in VersionStates : \E i \in 1..NumKeys : d[i] # 0 }
    ELSE VersionStates

\* open(file_path, "w"): the file is created or truncated in place
SaveOpen ==
    /\ sv_pc = "save"
    /\ \/ /\ sv_disk' = FileWith(<<>>)
          /\ sv_pc' = "dump"
       \/ \* the directory is missing or open raised: logged, nothing written
          /\ sv_pc' = "returned"
          /\ UNCHANGED sv_disk
    /\ UNCHANGED <<sv_saver, sv_before, sv_dictionary>>
    /\ UNCHANGED NotSave

\* json.dump writes the text piece by piece into the open file
SaveDump ==
    /\ sv_pc = "dump"
    /\ LET text == json_dump(sv_dictionary)
           n == Len(sv_disk.text)
       IN  IF n < Len(text)
           THEN /\ sv_disk' = FileWith(Append(sv_disk.text, text[n + 1]))
                /\ UNCHANGED sv_pc
           ELSE /\ sv_pc' = "returned"
                /\ UNCHANGED sv_disk
    /\ UNCHANGED <<sv_saver, sv_before, sv_dictionary>>
    /\ UNCHANGED NotSave

\* the process is killed during the save
SaveKilled ==
    /\ sv_pc \in {"save", "dump"}
    /\ sv_pc' = "killed"
    /\ UNCHANGED <<sv_saver, sv_disk, sv_before, sv_dictionary>>
    /\ UNCHANGED NotSave

(***************************************************************************)
(* ZipExtractor.extract_obs_installation (extractor.py). A directory tree  *)
(* is a set of nodes, each a path relative to its root with a kind. The    *)
(* names of the archive hold no "..", so _is_safe_path accepts them all.   *)
(***************************************************************************)
MaxFlatEntries == 2

\* ZipInfo.filename split at "/"
FlatPaths ==
    { <<"R">>, <<"R", "b">>, <<"R", "x">>, <<"R", "b", "x">>, <<"S">>, <<"S", "x">> }

\* a ZipInfo; readable is false for a member zip_ref.open() raises on
\* (encrypted, unsupported compression method)
FlatEntries ==
    { e \in [parts : FlatPaths, is_dir : BOOLEAN, readable : BOOLEAN] :
        /\ e.is_dir => e.readable
        /\ e.parts = <<"R">> => e.is_dir }

FlatArchives == UNION { [1..k -> FlatEntries] : k \in 1..MaxFlatEntries }

Node(path, kind) == [path |-> path, kind |-> kind]

\* what the target directory holds before the call
FlatTargets ==
    { {},
      { Node(<<"x">>, "file") },
      { Node(<<"b">>, "dir"), Node(<<"b", "old">>, "file") } }

\* "none", "file" or "dir"
KindAt(fs, path) ==
    IF \E n \in fs : n.path = path
    THEN (CHOOSE n \in fs : n.path = path).kind
    ELSE "none"

\* Path.mkdir(parents=True, exist_ok=True) raises when a component is a file
CanMkdir(fs, path) ==
    \A k \in 1..Len(path) : KindAt(fs, SubSeq(path, 1, k)) \in {"none", "dir"}

MkdirParents(fs, path) ==
    fs \cup { Node(SubSeq(path, 1, k), "dir") : k \in 1..Len(path) }

\* the body of the loop of extract_zip for one entry, overwrite_existing=True;
\* an exception is logged and the loop continues
extract_entry(fs, file_info) ==
    IF file_info.is_dir
    THEN IF CanMkdir(fs, file_info.parts) THEN MkdirParents(fs, file_info.parts) ELSE fs
    ELSE \* _extract_single_file
         IF ~CanMkdir(fs, Parent(file_info.parts)) THEN fs
         ELSE IF ~file_info.readable \/ KindAt(fs, file_info.parts) = "dir"
         THEN MkdirParents(fs, Parent(file_info.parts))
         ELSE MkdirParents(fs, Parent(file_info.parts)) \cup { Node(file_info.parts, "file") }

\* the iteration of extract_zip for this entry reaches files_extracted += 1
entry_counted(fs, file_info) ==
    IF file_info.is_dir
    THEN CanMkdir(fs, file_info.parts)
    ELSE /\ CanMkdir(fs, Parent(file_info.parts))
         /\ file_info.readable
         /\ KindAt(fs, file_info.parts) # "dir"

\* files_extracted after the iteration for this entry
count_entry(n, fs, file_info) ==
    IF entry_counted(fs, file_info) THEN n + 1 ELSE n

\* get_zip_info: root_items
root_items(archive) == { archive[i].parts[1] : i \in 1..Len(archive) }

\* the nodes at path and below it
Subtree(fs, path) == { n \in fs : is_relative_to(n.path, path) }

\* shutil.move(nested_dir / name, target_path / name)
Rerooted(fs, nested, name) ==
    { Node(Suffix(n.path, Len(nested)), n.kind) : n \in Subtree(fs, Append(nested, name)) }

\* nested_dir.iterdir()
ChildNames(fs, dir) == { n.path[Len(dir) + 1] : n \in { c \in fs : Len(c.path) = Len(dir) + 1 /\ is_relative_to(c.path, dir) } }

NoRoot == "none"

\* lines 412-423: get_zip_info and the choice between the two ways
FlatGetZipInfo ==
    /\ f_pc = "get_zip_info"
    /\ IF ~f_valid
       THEN /\ f_pc' = "returned"
            /\ f_success' = FALSE
            /\ UNCHANGED f_root
       ELSE IF Cardinality(root_items(f_archive)) = 1
       THEN /\ f_pc' = "extract_temp"
            /\ f_root' = CHOOSE r \in root_items(f_archive) : TRUE
            /\ UNCHANGED f_success
       ELSE /\ f_pc' = "extract_direct"
            /\ UNCHANGED <<f_root, f_success>>
    /\ UNCHANGED <<f_archive, f_valid, f_target, f_temp, f_i, f_items, f_files_extracted>>
    /\ UNCHANGED NotFlat

\* lines 429-434: extract_zip into obs_temp_<time>, one entry per step
FlatExtractToTemp ==
    /\ f_pc = "extract_temp"
    /\ f_i < Len(f_archive)
    /\ f_temp' = extract_entry(f_temp, f_archive[f_i + 1])
    /\ f_files_extracted' = count_entry(f_files_extracted, f_temp, f_archive[f_i + 1])
    /\ f_i' = f_i + 1
    /\ UNCHANGED <<f_archive, f_valid, f_target, f_root, f_items, f_success, f_pc>>
    /\ UNCHANGED NotFlat

\* lines 437-441: extract_zip returned success; nested_dir is looked at
FlatNestedDir ==
    /\ f_pc = "extract_temp"
    /\ f_i = Len(f_archive)
    /\ IF KindAt(f_temp, <<f_root>>) = "dir"
       THEN /\ f_items' = ChildNames(f_temp, <<f_root>>)
            /\ f_pc' = "move"
       ELSE /\ f_items' = {}
            /\ f_pc' = "cleanup"
    /\ f_success' = TRUE
    /\ UNCHANGED <<f_archive, f_valid, f_target, f_temp, f_root, f_i, f_files_extracted>>
    /\ UNCHANGED NotFlat

\* lines 443-450: one iteration of the loop over nested_dir.iterdir()
FlatMoveItem ==
    /\ f_pc = "move"
    /\ \E name \in f_items :
          \/ \* the old item is removed, the new one moved in its place
             /\ f_target' = (f_target \ Subtree(f_target, <<name>>))
                                \cup Rerooted(f_temp, <<f_root>>, name)
             /\ f_temp' = f_temp \ Subtree(f_temp, <<f_root, name>>)
             /\ f_items' = f_items \ {name}
             /\ f_pc' = IF f_items = {name} THEN "cleanup" ELSE "move"
             /\ UNCHANGED f_success
          \/ \* rmtree, unlink or move raised (a file of the old item is in use)
             /\ KindAt(f_target, <<name>>) # "none"
             /\ f_temp' = {}
             /\ f_success' = FALSE
             /\ f_pc' = "returned"
             /\ UNCHANGED <<f_target, f_items>>
    /\ UNCHANGED <<f_archive, f_valid, f_root, f_i, f_files_extracted>>
    /\ UNCHANGED NotFlat

\* lines 456-459: shutil.rmtree(temp_extract_path), return result
FlatCleanup ==
    /\ f_pc = "cleanup"
    /\ f_temp' = {}
    /\ f_pc' = "returned"
    /\ UNCHANGED <<f_archive, f_valid, f_target, f_root, f_i, f_items, f_success,
                   f_files_extracted>>
    /\ UNCHANGED NotFlat

\* line 470: extract_zip straight into target_path, one entry per step
FlatExtractDirect ==
    /\ f_pc = "extract_direct"
    /\ IF f_i < Len(f_archive)
       THEN /\ f_target' = extract_entry(f_target, f_archive[f_i + 1])
            /\ f_files_extracted' =
                  count_entry(f_files_extracted, f_target, f_archive[f_i + 1])
            /\ f_i' = f_i + 1
            /\ UNCHANGED <<f_success, f_pc>>
       ELSE /\ f_success' = TRUE
            /\ f_pc' = "returned"
            /\ UNCHANGED <<f_target, f_i, f_files_extracted>>
    /\ UNCHANGED <<f_archive, f_valid, f_temp, f_root, f_items>>
    /\ UNCHANGED NotFlat

(***************************************************************************)
(* Loading the version state at startup: read_json_file (cgg-obs-setup.py) *)
(* called by cggOBS.__init__, and OBSPluginManager.load_version_tracking   *)
(* (plugin_manager.py), followed by the first use of what was loaded.      *)
(***************************************************************************)
Loaders == {"read_json_file", "load_version_tracking"}

EmptyState == [i \in 1..NumKeys |-> 0]

\* a JSON text that is valid and is not a mapping
ListText == << <<"[", 0>>, <<"]", 0>> >>

\* the texts a state file can hold: a saved state, a state cut short by a
\* killed save, a JSON list
LoadTexts ==
    {ListText} \cup
    UNION { { Prefix(json_dump(d), k) : k \in 0..Len(json_dump(d)) } : d \in VersionStates }

\* json.load: the value of a complete text, JSONDecodeError otherwise
json_parse(text) ==
    IF text = ListText
    THEN [ok |-> TRUE, kind |-> "list", data |-> EmptyState]
    ELSE [ok |-> json_load(text).ok, kind |-> "dict", data |-> json_load(text).data]

Loaded(kind, data) == [kind |-> kind, data |-> data]

NothingLoaded == Loaded("none", EmptyState)

\* open(filename): FileNotFoundError for a missing file, PermissionError for
\* one that cannot be read. read_json_file catches the first only;
\* load_version_tracking tests exists() and catches every Exception
LoadOpen ==
    /\ ld_pc = "open"
    /\ IF ~ld_file.exists
       THEN /\ ld_value' = IF ld_loader = "read_json_file"
                           THEN Loaded("defaultdict", EmptyState)
                           ELSE Loaded("dict", EmptyState)
            /\ ld_pc' = "returned"
       ELSE IF ~ld_readable
       THEN IF ld_loader = "read_json_file"
            THEN ld_pc' = "raised" /\ UNCHANGED ld_value
            ELSE ld_pc' = "returned" /\ ld_value' = Loaded("dict", EmptyState)
       ELSE ld_pc' = "json_load" /\ UNCHANGED ld_value
    /\ UNCHANGED <<ld_loader, ld_file, ld_readable>>
    /\ UNCHANGED NotLoad

\* json.load(f) and what the loader makes of it
LoadParse ==
    /\ ld_pc = "json_load"
    /\ LET data == json_parse(ld_file.text)
       IN  ld_value' =
              IF ld_loader = "read_json_file"
              THEN IF data.ok
                   THEN Loaded(data.kind, data.data)           \* return data
                   ELSE Loaded("defaultdict", EmptyState)      \* JSONDecodeError
              ELSE IF data.ok /\ data.kind = "dict"
                   THEN Loaded("dict", data.data)
                   ELSE Loaded("dict", EmptyState)             \* except Exception
    /\ ld_pc' = "returned"
    /\ UNCHANGED <<ld_loader, ld_file, ld_readable>>
    /\ UNCHANGED NotLoad

\* the first use of the loaded state: self.installed_versions.get(...) in
\* download_objects, plugin_name not in self.downloaded_versions in needs_update
LoadUse ==
    /\ ld_pc = "returned"
    /\ ld_pc' = IF ld_value.kind = "list" /\ ld_loader = "read_json_file"
                THEN "raised"                                  \* AttributeError
                ELSE "used"
    /\ UNCHANGED <<ld_loader, ld_file, ld_readable, ld_value>>
    /\ UNCHANGED NotLoad

(***************************************************************************)
(* Cancellation during the OBS download: the worker thread inside          *)
(* InstallationWorker._download_obs_release and FileDownloader             *)
(* .download_file, the UI thread inside InstallationController.cancel_installation   *)
(* and InstallationWorker.cancel (installer.py, downloader.py). The steps  *)
(* of the two threads interleave freely. The next run is a new worker that *)
(* finds the download cache as the run before left it.                     *)
(***************************************************************************)
\* chunks of the response body
NumChunks == 2

\* runs of the installer, one worker each
MaxWorkerRuns == 2

FileAt(exists, size) == [exists |-> exists, size |-> size]

NoCacheFile == FileAt(FALSE, 0)

\* the worker has left run(), or the thread was terminated
WorkerStopped == w_pc \in {"finished", "terminated"}

\* the steps of the worker that are inside FileDownloader.download_file
InDownloadFile == {"download_file", "request", "writing"}

\* a file is at current_download_path and lacks a part of the content
PartialFile == c_file.exists /\ c_file.size < NumChunks

\* ---- the worker thread ----

\* _check_if_download_needed: expected_file.exists() alone decides; for an
\* existing file last_obs_version is set and run() goes on with that file
CheckCacheFile ==
    /\ w_pc = "check_if_download_needed"
    /\ IF c_file.exists
       THEN c_recorded' = TRUE /\ w_pc' = "downloaded"
       ELSE c_recorded' = c_recorded /\ w_pc' = "download_obs_release"
    /\ UNCHANGED <<c_unlink_open, c_path, c_cancelled, c_file, c_open, c_attempt,
                   c_chunks, c_cancel_at, c_extracted, c_run, u_pc>>
    /\ UNCHANGED NotCancel

\* _download_obs_release up to the call of download_file:
\* self.current_download_path = download_path
SetCurrentDownloadPath ==
    /\ w_pc = "download_obs_release"
    /\ c_path' = "set"
    /\ w_pc' = "download_file"
    /\ UNCHANGED <<c_unlink_open, c_cancelled, c_file, c_open, c_attempt, c_chunks,
                   c_cancel_at, c_extracted, c_recorded, u_pc, c_run>>
    /\ UNCHANGED NotCancel

\* download_file up to its loop: run() downloads only a file that is not in
\* the cache, so existing_size = 0 and every attempt opens with mode 'wb'
BeginDownloadFile ==
    /\ w_pc = "download_file"
    /\ c_attempt' = 1
    /\ w_pc' = "request"
    /\ UNCHANGED <<c_unlink_open, c_path, c_cancelled, c_file, c_open, c_chunks,
                   c_cancel_at, c_extracted, c_recorded, u_pc, c_run>>
    /\ UNCHANGED NotCancel

\* the loop of download_file after an attempt that did not succeed: sleep and
\* attempt again, or return the failure, which ends run()
attempt_failed ==
    IF c_attempt < max_retries
    THEN c_attempt' = c_attempt + 1 /\ w_pc' = "request"
    ELSE c_attempt' = c_attempt /\ w_pc' = "finished"

\* _attempt_download up to open(file_path, 'wb'): the request fails, or it is
\* answered 200 and the file is created or truncated
SendRequest ==
    /\ w_pc = "request"
    /\ \/ /\ attempt_failed
          /\ UNCHANGED <<c_file, c_open, c_chunks>>
       \/ /\ c_file' = FileAt(TRUE, 0)
          /\ c_open' = "open"
          /\ c_chunks' = 0
          /\ w_pc' = "writing"
          /\ UNCHANGED c_attempt
    /\ UNCHANGED <<c_unlink_open, c_path, c_cancelled, c_cancel_at, c_extracted,
                   c_recorded, u_pc, c_run>>
    /\ UNCHANGED NotCancel

\* f.write(chunk); progress_callback returns at once when cancelled and stops
\* nothing. The bytes of a file that was unlinked while open are in no
\* directory
WriteChunk ==
    /\ w_pc = "writing"
    /\ c_chunks < NumChunks
    /\ c_chunks' = c_chunks + 1
    /\ c_file' = IF c_open = "open" THEN FileAt(TRUE, c_file.size + 1) ELSE c_file
    /\ UNCHANGED <<c_unlink_open, c_path, c_cancelled, c_open, c_attempt, c_cancel_at,
                   c_extracted, c_recorded, w_pc, u_pc, c_run>>
    /\ UNCHANGED NotCancel

\* the connection breaks inside iter_content: the with statement closes the
\* file and the attempt has failed
ConnectionBreaks ==
    /\ w_pc = "writing"
    /\ c_chunks < NumChunks
    /\ c_open' = "closed"
    /\ attempt_failed
    /\ UNCHANGED <<c_unlink_open, c_path, c_cancelled, c_file, c_chunks, c_cancel_at,
                   c_extracted, c_recorded, u_pc, c_run>>
    /\ UNCHANGED NotCancel

\* the body is complete: the file is closed, download_file returns success,
\* _download_obs_release returns result.file_path
DownloadCompletes ==
    /\ w_pc = "writing"
    /\ c_chunks = NumChunks
    /\ c_open' = "closed"
    /\ w_pc' = "downloaded"
    /\ UNCHANGED <<c_unlink_open, c_path, c_cancelled, c_file, c_attempt, c_chunks,
                   c_cancel_at, c_extracted, c_recorded, u_pc, c_run>>
    /\ UNCHANGED NotCancel

\* run(): if self.cancelled: return, before the extraction
CheckCancelledBeforeExtract ==
    /\ w_pc = "downloaded"
    /\ w_pc' = IF c_cancelled THEN "finished" ELSE "extract_obs_studio"
    /\ UNCHANGED <<c_unlink_open, c_path, c_cancelled, c_file, c_open, c_attempt,
                   c_chunks, c_cancel_at, c_extracted, c_recorded, u_pc, c_run>>
    /\ UNCHANGED NotCancel

\* run(): _extract_obs_studio(download_path); a failure ends run(). An archive
\* that is not at download_path cannot be extracted
ExtractDownloaded ==
    /\ w_pc = "extract_obs_studio"
    /\ \E success \in (IF c_file.exists /\ ~PartialFile THEN BOOLEAN ELSE {FALSE}) :
          /\ c_extracted' = success
          /\ w_pc' = IF success THEN "extracted" ELSE "finished"
    /\ UNCHANGED <<c_unlink_open, c_path, c_cancelled, c_file, c_open, c_attempt,
                   c_chunks, c_cancel_at, c_recorded, u_pc, c_run>>
    /\ UNCHANGED NotCancel

\* run(): if self.cancelled: return, then _update_configuration
UpdateAfterExtract ==
    /\ w_pc = "extracted"
    /\ c_recorded' = (c_recorded \/ ~c_cancelled)
    /\ w_pc' = "finished"
    /\ UNCHANGED <<c_unlink_open, c_path, c_cancelled, c_file, c_open, c_attempt,
                   c_chunks, c_cancel_at, c_extracted, u_pc, c_run>>
    /\ UNCHANGED NotCancel

\* ---- the UI thread ----

\* cancel_installation: the worker is running; worker.cancel() sets
\* self.cancelled
CancelCalled ==
    /\ u_pc = "running"
    /\ ~WorkerStopped
    /\ c_cancelled' = TRUE
    /\ c_cancel_at' = w_pc
    /\ u_pc' = "cancel"
    /\ UNCHANGED <<c_unlink_open, c_path, c_file, c_open, c_attempt, c_chunks,
                   c_extracted, c_recorded, w_pc, c_run>>
    /\ UNCHANGED NotCancel

\* cancel(): if self.current_download_path and
\* self.current_download_path.exists()
CancelChecksPath ==
    /\ u_pc = "cancel"
    /\ u_pc' = IF c_path = "set" /\ c_file.exists THEN "cleanup_partial_download"
               ELSE "wait"
    /\ UNCHANGED <<c_unlink_open, c_path, c_cancelled, c_file, c_open, c_attempt,
                   c_chunks, c_cancel_at, c_extracted, c_recorded, w_pc, c_run>>
    /\ UNCHANGED NotCancel

\* cleanup_partial_download: file_path.unlink() if the file exists. For a
\* file the worker holds open the unlink raises OSError where the platform
\* refuses it (caught, False returned), and elsewhere removes the name while
\* the worker keeps writing
cleanup_partial_download ==
    /\ u_pc = "cleanup_partial_download"
    /\ IF ~c_file.exists
       THEN UNCHANGED <<c_file, c_open>>
       ELSE IF c_open = "open"
       THEN IF c_unlink_open
            THEN c_file' = NoCacheFile /\ c_open' = "unlinked"
            ELSE UNCHANGED <<c_file, c_open>>
       ELSE c_file' = NoCacheFile /\ UNCHANGED c_open
    /\ u_pc' = "wait"
    /\ UNCHANGED <<c_unlink_open, c_path, c_cancelled, c_attempt, c_chunks,
                   c_cancel_at, c_extracted, c_recorded, w_pc, c_run>>
    /\ UNCHANGED NotCancel

\* cancel_installation: worker.wait(5000) returns because run() has ended
WaitReturns ==
    /\ u_pc = "wait"
    /\ WorkerStopped
    /\ u_pc' = "cancelled"
    /\ UNCHANGED <<c_unlink_open, c_path, c_cancelled, c_file, c_open, c_attempt,
                   c_chunks, c_cancel_at, c_extracted, c_recorded, w_pc, c_run>>
    /\ UNCHANGED NotCancel

\* cancel_installation: worker.wait(5000) times out and the thread is
\* terminated where it is
WaitTimesOut ==
    /\ u_pc = "wait"
    /\ ~WorkerStopped
    /\ w_pc' = "terminated"
    /\ u_pc' = "cancelled"
    /\ UNCHANGED <<c_unlink_open, c_path, c_cancelled, c_file, c_open, c_attempt,
                   c_chunks, c_cancel_at, c_extracted, c_recorded, c_run>>
    /\ UNCHANGED NotCancel

\* the installer is started again after the worker has stopped: a new
\* InstallationWorker for the same release, the cache file as it was left
StartNextWorker ==
    /\ WorkerStopped
    /\ u_pc \in {"running", "cancelled"}
    /\ c_run < MaxWorkerRuns
    /\ c_run' = c_run + 1
    /\ c_path' = "None"
    /\ c_cancelled' = FALSE
    /\ c_open' = "closed"
    /\ c_attempt' = 0
    /\ c_chunks' = 0
    /\ c_cancel_at' = ""
    /\ c_extracted' = FALSE
    /\ c_recorded' = FALSE
    /\ w_pc' = "check_if_download_needed"
    /\ u_pc' = "running"
    /\ UNCHANGED <<c_unlink_open, c_file>>
    /\ UNCHANGED NotCancel
(***************************************************************************)
(* The two passes of main() over self.downloads_status:                    *)
(* install_downloads("OBS"), then install_downloads() (cgg-obs-setup.py).  *)
(* installed_versions is the defaultdict of a first run and every download *)
(* is an archive.                                                          *)
(***************************************************************************)
\* the names the configuration can give its objects
PassNames == {"OBS", "obs", "A"}

\* the orders a configuration can list some of PassNames in
PassConfigs ==
    { s \in UNION { [1..n -> PassNames] : n \in 1..Cardinality(PassNames) } :
        \A i, j \in DOMAIN s : i # j => s[i] # s[j] }

\* the conditions under which the loop of install_downloads passes over an
\* object
install_skips(single_target, download_object, download_success) ==
    \/ ~download_success
    \/ (single_target # "False" /\ download_object # single_target)
    \/ (single_target = "False" /\ NameLower(download_object) = "obs")

\* one iteration of the loop of install_downloads(ip_pass): del download_success,
\* then the extraction
InstallPassIteration ==
    /\ ip_pc = "install_downloads"
    /\ ip_i <= Len(ip_objects)
    /\ LET download_object == ip_objects[ip_i]
       IN  IF install_skips(ip_pass, download_object, download_object \in ip_success)
           THEN UNCHANGED <<ip_success, ip_extracted>>
           ELSE /\ ip_success' = ip_success \ {download_object}
                /\ ip_extracted' = Append(ip_extracted, <<download_object, ip_pass>>)
    /\ ip_i' = ip_i + 1
    /\ UNCHANGED <<ip_objects, ip_pass, ip_pc>>
    /\ UNCHANGED NotPasses

\* the loop of a pass has ended: main() calls install_downloads() after
\* install_downloads("OBS"), and goes on after it
InstallPassEnds ==
    /\ ip_pc = "install_downloads"
    /\ ip_i > Len(ip_objects)
    /\ IF ip_pass = "OBS"
       THEN ip_pass' = "False" /\ ip_i' = 1 /\ ip_pc' = ip_pc
       ELSE ip_pass' = ip_pass /\ ip_i' = ip_i /\ ip_pc' = "returned"
    /\ UNCHANGED <<ip_objects, ip_success, ip_extracted>>
    /\ UNCHANGED NotPasses
(***************************************************************************)
(* InstallationWorker.run (installer.py) over several runs of the GUI on   *)
(* one installation directory: the OBS step extracts the OBS archive with  *)
(* extract_obs_installation, the plugin step downloads and extracts one    *)
(* plugin of plugins.json or finds it up to date (plugin_manager.py).      *)
(***************************************************************************)
MaxSharedRuns == 3

\* tag_name of a plugin release; the release date changes with it
PluginVersions == {"v1", "v2"}

NoPluginRecord == ""

\* the releases that can be the latest one after version was
LaterVersions(version) ==
    IF version = "v1" THEN {"v1", "v2"} ELSE {"v2"}

\* the PluginVersion recorded for a release
PluginRecord(version) == [version |-> version, release_date |-> version]

ObsFile(parts) == [parts |-> parts, is_dir |-> FALSE, readable |-> TRUE]

\* the OBS archive: one top-level directory with obs-plugins below it, the
\* same entries without the top-level directory, one top-level directory
\* without obs-plugins
ObsArchives ==
    { << ObsFile(<<"obs", "obs-plugins", "o.dll">>), ObsFile(<<"obs", "bin", "obs.exe">>) >>,
      << ObsFile(<<"obs-plugins", "o.dll">>), ObsFile(<<"bin", "obs.exe">>) >>,
      << ObsFile(<<"obs", "bin", "obs.exe">>) >> }

\* the files of the plugin archive, in a directory OBS has too and in one
\* of the plugin's own
PluginArchives ==
    { { <<"obs-plugins", "p.dll">> },
      { <<"data", "p.ini">> },
      { <<"obs-plugins", "p.dll">>, <<"data", "p.ini">> } }

\* extract_zip over the entries from the i-th on
RECURSIVE extract_entries(_, _, _)
extract_entries(fs, archive, i) ==
    IF i > Len(archive) THEN fs
    ELSE extract_entries(extract_entry(fs, archive[i]), archive, i + 1)

\* the loop over nested_dir.iterdir(): what is at target_path / item.name is
\* removed, the item is moved there
move_items(target, temp, root) ==
    (target \ UNION { Subtree(target, <<name>>) : name \in ChildNames(temp, <<root>>) })
        \cup UNION { Rerooted(temp, <<root>>, name) : name \in ChildNames(temp, <<root>>) }

\* install_path after extract_obs_installation returned success
extract_obs_installation(target, archive) ==
    IF Cardinality(root_items(archive)) = 1
    THEN LET root == CHOOSE r \in root_items(archive) : TRUE
             temp == extract_entries({}, archive, 1)
         IN  IF KindAt(temp, <<root>>) = "dir" THEN move_items(target, temp, root) ELSE target
    ELSE extract_entries(target, archive, 1)

\* ZipFile.extractall(obs_install_dir)
extract_plugin(target, files) ==
    target \cup UNION { extract_entry(target, ObsFile(parts)) : parts \in files }

\* run, step 1 with reinstall_obs off
ObsStepSkipped ==
    /\ sh_pc = "obs"
    /\ ~sh_options.reinstall_obs
    /\ sh_pc' = "plugins"
    /\ UNCHANGED <<sh_obs_archive, sh_plugin_files, sh_install, sh_record, sh_cache, sh_latest,
                   sh_options, sh_reported, sh_extract_result, sh_run>>
    /\ UNCHANGED NotShared

\* run, step 1: the archive is downloaded or found in the cache and is
\* extracted in either case
ObsStepExtracts ==
    /\ sh_pc = "obs"
    /\ sh_options.reinstall_obs
    /\ sh_install' = extract_obs_installation(sh_install, sh_obs_archive)
    /\ sh_pc' = "plugins"
    /\ UNCHANGED <<sh_obs_archive, sh_plugin_files, sh_record, sh_cache, sh_latest,
                   sh_options, sh_reported, sh_extract_result, sh_run>>
    /\ UNCHANGED NotShared

\* run, step 1: no release information or a failed download ends the run
ObsStepFails ==
    /\ sh_pc = "obs"
    /\ sh_options.reinstall_obs
    /\ sh_pc' = "done"
    /\ UNCHANGED <<sh_obs_archive, sh_plugin_files, sh_install, sh_record, sh_cache, sh_latest,
                   sh_options, sh_reported, sh_extract_result, sh_run>>
    /\ UNCHANGED NotShared

\* run, step 2 with install_plugins off
PluginsSkipped ==
    /\ sh_pc = "plugins"
    /\ ~sh_options.install_plugins
    /\ sh_pc' = "done"
    /\ UNCHANGED <<sh_obs_archive, sh_plugin_files, sh_install, sh_record, sh_cache, sh_latest,
                   sh_options, sh_reported, sh_extract_result, sh_run>>
    /\ UNCHANGED NotShared

\* download_github_plugin: needs_update is false, the recorded path is
\* returned and nothing is extracted
PluginUpToDate ==
    /\ sh_pc = "plugins"
    /\ sh_options.install_plugins
    /\ ~needs_update(sh_record # NoPluginRecord, PluginRecord(sh_record), sh_cache,
                    sh_latest, sh_latest)
    /\ sh_reported' = "up_to_date"
    /\ sh_pc' = "done"
    /\ UNCHANGED <<sh_obs_archive, sh_plugin_files, sh_install, sh_record, sh_cache, sh_latest,
                   sh_options, sh_extract_result, sh_run>>
    /\ UNCHANGED NotShared

\* download_plugin: after a successful download the record is stored and
\* saved, then extract_plugin is called and its result is dropped
PluginDownloaded ==
    /\ sh_pc = "plugins"
    /\ sh_options.install_plugins
    /\ needs_update(sh_record # NoPluginRecord, PluginRecord(sh_record), sh_cache,
                    sh_latest, sh_latest)
    /\ \E download_ok \in BOOLEAN, extract_ok \in BOOLEAN :
          IF download_ok
          THEN /\ sh_record' = sh_latest
               /\ sh_cache' = TRUE
               /\ sh_extract_result' = extract_ok
               /\ sh_install' = IF extract_ok THEN extract_plugin(sh_install, sh_plugin_files)
                                ELSE sh_install
               /\ sh_reported' = "downloaded"
          ELSE /\ extract_ok
               /\ sh_reported' = "failed"
               /\ UNCHANGED <<sh_install, sh_record, sh_cache, sh_extract_result>>
    /\ sh_pc' = "done"
    /\ UNCHANGED <<sh_obs_archive, sh_plugin_files, sh_latest, sh_options, sh_run>>
    /\ UNCHANGED NotShared

\* the user starts the installation again, a new plugin release may be out
StartSharedRun ==
    /\ sh_pc = "done"
    /\ sh_run < MaxSharedRuns
    /\ sh_run' = sh_run + 1
    /\ sh_options' \in GuiOptions
    /\ sh_latest' \in LaterVersions(sh_latest)
    /\ sh_reported' = "none"
    /\ sh_pc' = "obs"
    /\ UNCHANGED <<sh_obs_archive, sh_plugin_files, sh_install, sh_record, sh_cache,
                   sh_extract_result>>
    /\ UNCHANGED NotShared
(***************************************************************************)
(* GitHubAPIClient (github_client.py): get_latest_release and get_releases *)
(* with the response cache. A release keeps tag_name, prerelease and its   *)
(* assets; an asset is either the dictionary of the API response or a      *)
(* ReleaseAsset object. A list of releases is a sequence, None and [] are  *)
(* the empty sequence.                                                     *)
(***************************************************************************)
CacheDuration == 2

MaxTime == 2

\* the values of limit: one of a caller, and the 10 of get_latest_release
Limits == {1, 10}

\* an element of 'assets' in the API response
AssetData(name) == [kind |-> "dict", name |-> name]

\* ReleaseAsset(name=asset_data['name'], ...)
ReleaseAsset(asset_data) == [kind |-> "ReleaseAsset", name |-> asset_data.name]

\* a release of the API response
ReleaseData ==
    [tag_name : {"v1", "v2"}, prerelease : BOOLEAN, assets : {<<>>, <<AssetData("obs.zip")>>}]

\* the answers of /releases: v2 alone, or v2 and the older stable v1
ServerReleases ==
    { s \in UNION { [1..k -> ReleaseData] : k \in 1..2 } :
        /\ s[1].tag_name = "v2"
        /\ Len(s) = 2 => (s[2].tag_name = "v1" /\ ~s[2].prerelease) }

\* asset_data['name'] raises TypeError on a ReleaseAsset object
parse_raises(data) ==
    \E i \in 1..Len(data.assets) : data.assets[i].kind # "dict"

\* _parse_release_data, for data it does not raise on
parse_release_data(data) ==
    [tag_name |-> data.tag_name, prerelease |-> data.prerelease,
     assets |-> [i \in 1..Len(data.assets) |-> ReleaseAsset(data.assets[i])]]

\* Release.__dict__: the attributes as they are, assets a list of objects
release_dict(release) == release

\* f"latest_release_{include_prerelease}", f"releases_{limit}_{include_prerelease}"
cache_key(fn, limit, include_prerelease) ==
    [fn |-> fn, limit |-> limit, include_prerelease |-> include_prerelease]

CacheKeys ==
    { cache_key("latest_release", 0, p) : p \in BOOLEAN }
        \cup { cache_key("releases", l, p) : l \in Limits, p \in BOOLEAN }

is_cache_valid(cache, key, now) ==
    \E e \in cache : e.key = key /\ now - e.timestamp < CacheDuration

CacheEntry(cache, key) == CHOOSE e \in cache : e.key = key

\* self._cache[cache_key] = {'data': data, 'timestamp': time.time()};
\* returned is what the storing call returns
cache_store(cache, key, data, now, returned) ==
    { e \in cache : e.key # key }
        \cup { [key |-> key, data |-> data, timestamp |-> now, returned |-> returned] }

\* [self._parse_release_data(r) for r in cached_data], [] or None when it raises
parse_cached(cached_data) ==
    IF \E i \in 1..Len(cached_data) : parse_raises(cached_data[i])
    THEN <<>>
    ELSE [i \in 1..Len(cached_data) |-> parse_release_data(cached_data[i])]

Stable(release) == ~release.prerelease

FirstN(s, n) == SubSeq(s, 1, IF n < Len(s) THEN n ELSE Len(s))

\* the loop of get_releases over the page of per_page = limit releases
filter_releases(releases_data, limit, include_prerelease) ==
    LET page == FirstN(releases_data, limit)
        parsed == [i \in 1..Len(page) |-> parse_release_data(page[i])]
    IN  FirstN(IF include_prerelease THEN parsed ELSE SelectSeq(parsed, Stable), limit)

\* get_releases; response is <<>> for a failed request
get_releases(cache, now, response, limit, include_prerelease) ==
    LET key == cache_key("releases", limit, include_prerelease) IN
    IF is_cache_valid(cache, key, now)
    THEN [result |-> parse_cached(CacheEntry(cache, key).data), cache |-> cache,
          key |-> key, from_cache |-> TRUE]
    ELSE IF response = <<>>
    THEN [result |-> <<>>, cache |-> cache, key |-> key, from_cache |-> FALSE]
    ELSE LET releases == filter_releases(response, limit, include_prerelease)
         IN  [result |-> releases,
              cache |-> cache_store(cache, key,
                                    [i \in 1..Len(releases) |-> release_dict(releases[i])],
                                    now, releases),
              key |-> key, from_cache |-> FALSE]

\* the answer of /releases/latest: the newest release that is no pre-release
latest_endpoint(response) ==
    FirstN(SelectSeq(response, Stable), 1)

\* get_latest_release; the result is <<release>> or <<>> for None
get_latest_release(cache, now, response, include_prerelease) ==
    LET key == cache_key("latest_release", 0, include_prerelease) IN
    IF is_cache_valid(cache, key, now)
    THEN [result |-> parse_cached(CacheEntry(cache, key).data), cache |-> cache,
          key |-> key, from_cache |-> TRUE]
    ELSE IF ~include_prerelease
    THEN LET release_data == latest_endpoint(response)
             parsed == [i \in 1..Len(release_data) |-> parse_release_data(release_data[i])]
         IN  [result |-> parsed,
              cache |-> IF release_data = <<>> THEN cache
                        ELSE cache_store(cache, key, release_data, now, parsed),
              key |-> key, from_cache |-> FALSE]
    ELSE LET inner == get_releases(cache, now, response, 10, FALSE)
             latest == FirstN(inner.result, 1)
         IN  [result |-> latest,
              cache |-> IF latest = <<>> THEN inner.cache
                        ELSE cache_store(inner.cache, key,
                                         <<release_dict(latest[1])>>, now, latest),
              key |-> key, from_cache |-> FALSE]

NoCacheCall == [key |-> cache_key("none", 0, FALSE), result |-> <<>>, from_cache |-> FALSE]

CallGetLatestRelease ==
    /\ gh_server # <<>>
    /\ \E include_prerelease \in BOOLEAN, request_ok \in BOOLEAN :
          LET call == get_latest_release(gh_cache, gh_now,
                                         IF request_ok THEN gh_server ELSE <<>>,
                                         include_prerelease)
          IN  /\ gh_cache' = call.cache
              /\ gh_last' = [key |-> call.key, result |-> call.result,
                             from_cache |-> call.from_cache]
    /\ UNCHANGED <<gh_server, gh_now>>
    /\ UNCHANGED NotCache

CallGetReleases ==
    /\ gh_server # <<>>
    /\ \E limit \in Limits, include_prerelease \in BOOLEAN, request_ok \in BOOLEAN :
          LET call == get_releases(gh_cache, gh_now,
                                   IF request_ok THEN gh_server ELSE <<>>,
                                   limit, include_prerelease)
          IN  /\ gh_cache' = call.cache
              /\ gh_last' = [key |-> call.key, result |-> call.result,
                             from_cache |-> call.from_cache]
    /\ UNCHANGED <<gh_server, gh_now>>
    /\ UNCHANGED NotCache

\* time.time() advances between two calls
TimePasses ==
    /\ gh_server # <<>>
    /\ gh_now < MaxTime
    /\ gh_now' = gh_now + 1
    /\ UNCHANGED <<gh_server, gh_cache, gh_last>>
    /\ UNCHANGED NotCache
(***************************************************************************)
(* cggOBS.move_directories for one configured move whose object is in      *)
(* downloads_status: copy_directory_contents(source, target), then         *)
(* shutil.rmtree(source) (cgg-obs-setup.py). A file is named by its path   *)
(* relative to the directory that holds it, the same below source and      *)
(* below the installation root.                                            *)
(***************************************************************************)
\* the files an extraction can have left below installation_directory/<subdir>
MovePaths == { <<"x">>, <<"w">>, <<"d", "y">>, <<"d", "z">> }

\* os.listdir of a directory holding these files: the top-level names
ListDir(files) == { p[1] : p \in files }

\* the files below the subdirectory name of a directory, relative to it
FilesBelow(files, name) ==
    { SubSeq(p, 2, Len(p)) : p \in { q \in files : Len(q) > 1 /\ q[1] = name } }

\* shutil.copy(item_path, destination_dir) of a file of source_dir. Writing a
\* locked or read-only destination raises PermissionError, an OSError that
\* is not a shutil.Error: it leaves the for loop and is logged by the outer
\* except, so the items left in the listing are not copied
CopyFile ==
    /\ mv_pc = "copy_directory_contents"
    /\ \E item \in mv_todo :
          /\ <<item>> \in mv_source
          /\ IF <<item>> \in mv_locked
             THEN mv_todo' = {} /\ mv_pc' = "rmtree" /\ UNCHANGED mv_dest
             ELSE /\ mv_dest' = [mv_dest EXCEPT ![<<item>>] = "new"]
                  /\ mv_todo' = mv_todo \ {item}
                  /\ UNCHANGED mv_pc
    /\ UNCHANGED <<mv_source, mv_before, mv_locked, mv_sub_todo>>
    /\ UNCHANGED NotMove

\* the item is a directory: copy_directory_contents(item_path, destination_subdir)
CopyEntersDirectory ==
    /\ mv_pc = "copy_directory_contents"
    /\ \E item \in mv_todo :
          /\ <<item>> \notin mv_source
          /\ mv_sub_todo' = { p[1] : p \in FilesBelow(mv_source, item) }
          /\ mv_todo' = mv_todo \ {item}
          /\ mv_pc' = "recursive_call"
    /\ UNCHANGED <<mv_source, mv_before, mv_locked, mv_dest>>
    /\ UNCHANGED NotMove

\* shutil.copy inside the recursive call; its OSError ends the loop of the
\* recursive call only
CopyFileBelow ==
    /\ mv_pc = "recursive_call"
    /\ \E item \in mv_sub_todo :
          IF <<"d", item>> \in mv_locked
          THEN mv_sub_todo' = {} /\ UNCHANGED mv_dest
          ELSE /\ mv_dest' = [mv_dest EXCEPT ![<<"d", item>>] = "new"]
               /\ mv_sub_todo' = mv_sub_todo \ {item}
    /\ UNCHANGED <<mv_source, mv_before, mv_locked, mv_todo, mv_pc>>
    /\ UNCHANGED NotMove

\* the recursive call returns
RecursiveCallReturns ==
    /\ mv_pc = "recursive_call"
    /\ mv_sub_todo = {}
    /\ mv_pc' = "copy_directory_contents"
    /\ UNCHANGED <<mv_source, mv_before, mv_locked, mv_dest, mv_todo, mv_sub_todo>>
    /\ UNCHANGED NotMove

\* the listing is exhausted (or source does not exist):
\* copy_directory_contents returns
CopyReturns ==
    /\ mv_pc = "copy_directory_contents"
    /\ mv_todo = {}
    /\ mv_pc' = "rmtree"
    /\ UNCHANGED <<mv_source, mv_before, mv_locked, mv_dest, mv_todo, mv_sub_todo>>
    /\ UNCHANGED NotMove

\* shutil.rmtree(source): the directory is removed, or OSError is logged
RemoveSource ==
    /\ mv_pc = "rmtree"
    /\ \E removed \in BOOLEAN :
          mv_source' = IF removed THEN {} ELSE mv_source
    /\ mv_pc' = "returned"
    /\ UNCHANGED <<mv_before, mv_locked, mv_dest, mv_todo, mv_sub_todo>>
    /\ UNCHANGED NotMove
(***************************************************************************)
(* Initial states: the inputs of one component, the variables of the other *)
(* components at their idle values.                                       *)
(***************************************************************************)
InitAsset ==
    \* ---- Asset ----
    /\ assets \in SeqsUpTo(AssetNames, MaxAssets)
    /\ filename_pattern \in Patterns
    /\ matching_asset = 0
    /\ fm_pc = "call"
    \* ---- Decide idle ----
    /\ d_force = FALSE
    /\ d_pattern = <<>>
    /\ d_filename = PyFalse
    /\ d_tag = "None"
    /\ d_record = NoRecord
    /\ d_download = FALSE
    /\ d_pc = "idle"
    \* ---- CLI idle ----
    /\ json_data = <<>>
    /\ upstream = <<>>
    /\ versions_json = <<>>
    /\ installed_versions = <<>>
    /\ downloads_status = <<>>
    /\ cli_pc = "idle"
    /\ cli_i = 0
    /\ cli_run = 0
    /\ startup_json = <<>>
    /\ downloaded = {}
    /\ extracted_ok = {}
    /\ run1_clean = TRUE
    /\ downloads_dir = <<>>
    /\ extracted_archive = <<>>
    \* ---- GUI idle ----
    /\ options = <<>>
    /\ last_obs_version = ""
    /\ obs_cache = "none"
    /\ plugin_versions_json = <<>>
    /\ downloaded_versions = <<>>
    /\ plugin_files = {}
    /\ latest_release = NoRelease
    /\ g_pc = "idle"
    /\ g_i = 0
    /\ g_run = 0
    /\ cancelled = FALSE
    /\ g_processed = {}
    /\ g_extracted = {}
    /\ g_start_obs = ""
    /\ g_start_versions = <<>>
    /\ g_nu = NoCall
    /\ current_download_path = "None"
    \* ---- Zip idle ----
    /\ z_target = <<>>
    /\ z_overwrite = FALSE
    /\ z_fs = {}
    /\ z_written = {}
    /\ z_entry = NoEntry
    /\ z_skipped = FALSE
    /\ z_i = 0
    /\ z_total = 0
    /\ z_files_extracted = 0
    /\ z_failed = 0
    /\ z_pc = "idle"
    \* ---- DL idle ----
    /\ dl_resume = FALSE
    /\ dl_file = Absent
    /\ dl_initial = Absent
    /\ dl_existing_size = 0
    /\ dl_attempt = 0
    /\ dl_exchange = NoExchange
    /\ dl_partial = FALSE
    /\ dl_result = NoResult
    /\ dl_pc = "idle"
    /\ dl_max_retries = 0
    /\ dl_calls = 0
    /\ dl_sleeps = 0
    /\ dl_returns = "nothing"
    /\ dl_last = NoResult
    \* ---- Save idle ----
    /\ sv_saver = ""
    /\ sv_disk = NoFile
    /\ sv_before = NoFile
    /\ sv_dictionary = <<>>
    /\ sv_pc = "idle"
    \* ---- Flat idle ----
    /\ f_archive = <<>>
    /\ f_valid = FALSE
    /\ f_target = {}
    /\ f_temp = {}
    /\ f_root = NoRoot
    /\ f_i = 0
    /\ f_items = {}
    /\ f_success = FALSE
    /\ f_files_extracted = 0
    /\ f_pc = "idle"
    \* ---- Load idle ----
    /\ ld_loader = ""
    /\ ld_file = NoFile
    /\ ld_readable = TRUE
    /\ ld_value = NothingLoaded
    /\ ld_pc = "idle"
    \* ---- Cancel idle ----
    /\ c_unlink_open = FALSE
    /\ c_path = "None"
    /\ c_cancelled = FALSE
    /\ c_file = NoCacheFile
    /\ c_open = "closed"
    /\ c_attempt = 0
    /\ c_chunks = 0
    /\ c_cancel_at = ""
    /\ c_extracted = FALSE
    /\ c_recorded = FALSE
    /\ c_run = 0
    /\ w_pc = "idle"
    /\ u_pc = "idle"
    \* ---- Passes idle ----
    /\ ip_objects = <<>>
    /\ ip_success = {}
    /\ ip_pass = ""
    /\ ip_i = 0
    /\ ip_extracted = <<>>
    /\ ip_pc = "idle"
    \* ---- Shared idle ----
    /\ sh_obs_archive = <<>>
    /\ sh_plugin_files = {}
    /\ sh_install = {}
    /\ sh_record = NoPluginRecord
    /\ sh_cache = FALSE
    /\ sh_latest = "v1"
    /\ sh_options = [reinstall_obs |-> FALSE, install_plugins |-> FALSE]
    /\ sh_reported = "none"
    /\ sh_extract_result = FALSE
    /\ sh_run = 0
    /\ sh_pc = "idle"
    \* ---- Cache idle ----
    /\ gh_server = <<>>
    /\ gh_cache = {}
    /\ gh_now = 0
    /\ gh_last = NoCacheCall
    \* ---- Move idle ----
    /\ mv_source = {}
    /\ mv_before = {}
    /\ mv_locked = {}
    /\ mv_dest = <<>>
    /\ mv_todo = {}
    /\ mv_sub_todo = {}
    /\ mv_pc = "idle"

InitDecide ==
    \* ---- Decide ----
    /\ d_force \in BOOLEAN
    /\ d_pattern \in DecidePatterns
    /\ d_filename \in { n \in DecideNames : GlobMatch(d_pattern, n) }
    /\ d_tag \in {"None", "v1", "v2"}
    /\ d_record \in {NoRecord} \cup [filename : DecideNames, tag : {"False", "v1", "v2"}]
    /\ d_download = FALSE
    /\ d_pc = "decide"
    \* ---- Asset idle ----
    /\ assets = <<>>
    /\ filename_pattern = <<>>
    /\ matching_asset = 0
    /\ fm_pc = "idle"
    \* ---- CLI idle ----
    /\ json_data = <<>>
    /\ upstream = <<>>
    /\ versions_json = <<>>
    /\ installed_versions = <<>>
    /\ downloads_status = <<>>
    /\ cli_pc = "idle"
    /\ cli_i = 0
    /\ cli_run = 0
    /\ startup_json = <<>>
    /\ downloaded = {}
    /\ extracted_ok = {}
    /\ run1_clean = TRUE
    /\ downloads_dir = <<>>
    /\ extracted_archive = <<>>
    \* ---- GUI idle ----
    /\ options = <<>>
    /\ last_obs_version = ""
    /\ obs_cache = "none"
    /\ plugin_versions_json = <<>>
    /\ downloaded_versions = <<>>
    /\ plugin_files = {}
    /\ latest_release = NoRelease
    /\ g_pc = "idle"
    /\ g_i = 0
    /\ g_run = 0
    /\ cancelled = FALSE
    /\ g_processed = {}
    /\ g_extracted = {}
    /\ g_start_obs = ""
    /\ g_start_versions = <<>>
    /\ g_nu = NoCall
    /\ current_download_path = "None"
    \* ---- Zip idle ----
    /\ z_target = <<>>
    /\ z_overwrite = FALSE
    /\ z_fs = {}
    /\ z_written = {}
    /\ z_entry = NoEntry
    /\ z_skipped = FALSE
    /\ z_i = 0
    /\ z_total = 0
    /\ z_files_extracted = 0
    /\ z_failed = 0
    /\ z_pc = "idle"
    \* ---- DL idle ----
    /\ dl_resume = FALSE
    /\ dl_file = Absent
    /\ dl_initial = Absent
    /\ dl_existing_size = 0
    /\ dl_attempt = 0
    /\ dl_exchange = NoExchange
    /\ dl_partial = FALSE
    /\ dl_result = NoResult
    /\ dl_pc = "idle"
    /\ dl_max_retries = 0
    /\ dl_calls = 0
    /\ dl_sleeps = 0
    /\ dl_returns = "nothing"
    /\ dl_last = NoResult
    \* ---- Save idle ----
    /\ sv_saver = ""
    /\ sv_disk = NoFile
    /\ sv_before = NoFile
    /\ sv_dictionary = <<>>
    /\ sv_pc = "idle"
    \* ---- Flat idle ----
    /\ f_archive = <<>>
    /\ f_valid = FALSE
    /\ f_target = {}
    /\ f_temp = {}
    /\ f_root = NoRoot
    /\ f_i = 0
    /\ f_items = {}
    /\ f_success = FALSE
    /\ f_files_extracted = 0
    /\ f_pc = "idle"
    \* ---- Load idle ----
    /\ ld_loader = ""
    /\ ld_file = NoFile
    /\ ld_readable = TRUE
    /\ ld_value = NothingLoaded
    /\ ld_pc = "idle"
    \* ---- Cancel idle ----
    /\ c_unlink_open = FALSE
    /\ c_path = "None"
    /\ c_cancelled = FALSE
    /\ c_file = NoCacheFile
    /\ c_open = "closed"
    /\ c_attempt = 0
    /\ c_chunks = 0
    /\ c_cancel_at = ""
    /\ c_extracted = FALSE
    /\ c_recorded = FALSE
    /\ c_run = 0
    /\ w_pc = "idle"
    /\ u_pc = "idle"
    \* ---- Passes idle ----
    /\ ip_objects = <<>>
    /\ ip_success = {}
    /\ ip_pass = ""
    /\ ip_i = 0
    /\ ip_extracted = <<>>
    /\ ip_pc = "idle"
    \* ---- Shared idle ----
    /\ sh_obs_archive = <<>>
    /\ sh_plugin_files = {}
    /\ sh_install = {}
    /\ sh_record = NoPluginRecord
    /\ sh_cache = FALSE
    /\ sh_latest = "v1"
    /\ sh_options = [reinstall_obs |-> FALSE, install_plugins |-> FALSE]
    /\ sh_reported = "none"
    /\ sh_extract_result = FALSE
    /\ sh_run = 0
    /\ sh_pc = "idle"
    \* ---- Cache idle ----
    /\ gh_server = <<>>
    /\ gh_cache = {}
    /\ gh_now = 0
    /\ gh_last = NoCacheCall
    \* ---- Move idle ----
    /\ mv_source = {}
    /\ mv_before = {}
    /\ mv_locked = {}
    /\ mv_dest = <<>>
    /\ mv_todo = {}
    /\ mv_sub_todo = {}
    /\ mv_pc = "idle"

InitCLI ==
    \* ---- CLI ----
    /\ json_data \in { c \in [1..NumObjects -> [name : Objs, kind : {"github", "obsproject"},
                                               filename : {<<"*">>},
                                               force_download : BOOLEAN]] :
                         \A i \in 1..NumObjects :
                            /\ c[i].name = ObjectNames[i]
                            /\ c[i].kind = KindOf(c[i].name) }
    /\ upstream \in { u \in [Objs -> UNION { Resolutions(o) : o \in Objs }] :
                        \A o \in Objs : u[o] \in Resolutions(o) }
    /\ versions_json \in VersionFiles
    /\ installed_versions = read_json_file(versions_json)
    /\ downloads_status = [o \in Objs |-> NoStatus]
    /\ cli_pc = "download_objects"
    /\ cli_i = 1
    /\ cli_run = 1
    /\ startup_json = versions_json
    /\ downloaded = {}
    /\ extracted_ok = {}
    /\ run1_clean = TRUE
    /\ downloads_dir = [fn \in UpstreamNames |-> "none"]
    /\ extracted_archive = [o \in Objs |-> "none"]
    \* ---- Asset idle ----
    /\ assets = <<>>
    /\ filename_pattern = <<>>
    /\ matching_asset = 0
    /\ fm_pc = "idle"
    \* ---- Decide idle ----
    /\ d_force = FALSE
    /\ d_pattern = <<>>
    /\ d_filename = PyFalse
    /\ d_tag = "None"
    /\ d_record = NoRecord
    /\ d_download = FALSE
    /\ d_pc = "idle"
    \* ---- GUI idle ----
    /\ options = <<>>
    /\ last_obs_version = ""
    /\ obs_cache = "none"
    /\ plugin_versions_json = <<>>
    /\ downloaded_versions = <<>>
    /\ plugin_files = {}
    /\ latest_release = NoRelease
    /\ g_pc = "idle"
    /\ g_i = 0
    /\ g_run = 0
    /\ cancelled = FALSE
    /\ g_processed = {}
    /\ g_extracted = {}
    /\ g_start_obs = ""
    /\ g_start_versions = <<>>
    /\ g_nu = NoCall
    /\ current_download_path = "None"
    \* ---- Zip idle ----
    /\ z_target = <<>>
    /\ z_overwrite = FALSE
    /\ z_fs = {}
    /\ z_written = {}
    /\ z_entry = NoEntry
    /\ z_skipped = FALSE
    /\ z_i = 0
    /\ z_total = 0
    /\ z_files_extracted = 0
    /\ z_failed = 0
    /\ z_pc = "idle"
    \* ---- DL idle ----
    /\ dl_resume = FALSE
    /\ dl_file = Absent
    /\ dl_initial = Absent
    /\ dl_existing_size = 0
    /\ dl_attempt = 0
    /\ dl_exchange = NoExchange
    /\ dl_partial = FALSE
    /\ dl_result = NoResult
    /\ dl_pc = "idle"
    /\ dl_max_retries = 0
    /\ dl_calls = 0
    /\ dl_sleeps = 0
    /\ dl_returns = "nothing"
    /\ dl_last = NoResult
    \* ---- Save idle ----
    /\ sv_saver = ""
    /\ sv_disk = NoFile
    /\ sv_before = NoFile
    /\ sv_dictionary = <<>>
    /\ sv_pc = "idle"
    \* ---- Flat idle ----
    /\ f_archive = <<>>
    /\ f_valid = FALSE
    /\ f_target = {}
    /\ f_temp = {}
    /\ f_root = NoRoot
    /\ f_i = 0
    /\ f_items = {}
    /\ f_success = FALSE
    /\ f_files_extracted = 0
    /\ f_pc = "idle"
    \* ---- Load idle ----
    /\ ld_loader = ""
    /\ ld_file = NoFile
    /\ ld_readable = TRUE
    /\ ld_value = NothingLoaded
    /\ ld_pc = "idle"
    \* ---- Cancel idle ----
    /\ c_unlink_open = FALSE
    /\ c_path = "None"
    /\ c_cancelled = FALSE
    /\ c_file = NoCacheFile
    /\ c_open = "closed"
    /\ c_attempt = 0
    /\ c_chunks = 0
    /\ c_cancel_at = ""
    /\ c_extracted = FALSE
    /\ c_recorded = FALSE
    /\ c_run = 0
    /\ w_pc = "idle"
    /\ u_pc = "idle"
    \* ---- Passes idle ----
    /\ ip_objects = <<>>
    /\ ip_success = {}
    /\ ip_pass = ""
    /\ ip_i = 0
    /\ ip_extracted = <<>>
    /\ ip_pc = "idle"
    \* ---- Shared idle ----
    /\ sh_obs_archive = <<>>
    /\ sh_plugin_files = {}
    /\ sh_install = {}
    /\ sh_record = NoPluginRecord
    /\ sh_cache = FALSE
    /\ sh_latest = "v1"
    /\ sh_options = [reinstall_obs |-> FALSE, install_plugins |-> FALSE]
    /\ sh_reported = "none"
    /\ sh_extract_result = FALSE
    /\ sh_run = 0
    /\ sh_pc = "idle"
    \* ---- Cache idle ----
    /\ gh_server = <<>>
    /\ gh_cache = {}
    /\ gh_now = 0
    /\ gh_last = NoCacheCall
    \* ---- Move idle ----
    /\ mv_source = {}
    /\ mv_before = {}
    /\ mv_locked = {}
    /\ mv_dest = <<>>
    /\ mv_todo = {}
    /\ mv_sub_todo = {}
    /\ mv_pc = "idle"

InitGUI ==
    \* ---- GUI ----
    /\ options \in GuiOptions
    /\ last_obs_version \in {"", "v1"}
    /\ obs_cache \in {"none", "partial", "complete"}
    /\ plugin_versions_json \in [Plugins -> {NoPluginVersion, [version |-> "v1", release_date |-> "d1"]}]
    /\ downloaded_versions = [p \in Plugins |-> NoPluginVersion]
    /\ plugin_files \in SUBSET Plugins
    /\ latest_release = NoRelease
    /\ g_pc = FirstStep(options)
    /\ g_i = 1
    /\ g_run = 1
    /\ cancelled = FALSE
    /\ g_processed = {}
    /\ g_extracted = {}
    /\ g_start_obs = last_obs_version
    /\ g_start_versions = plugin_versions_json
    /\ g_nu = NoCall
    /\ current_download_path = "None"
    \* ---- Asset idle ----
    /\ assets = <<>>
    /\ filename_pattern = <<>>
    /\ matching_asset = 0
    /\ fm_pc = "idle"
    \* ---- Decide idle ----
    /\ d_force = FALSE
    /\ d_pattern = <<>>
    /\ d_filename = PyFalse
    /\ d_tag = "None"
    /\ d_record = NoRecord
    /\ d_download = FALSE
    /\ d_pc = "idle"
    \* ---- CLI idle ----
    /\ json_data = <<>>
    /\ upstream = <<>>
    /\ versions_json = <<>>
    /\ installed_versions = <<>>
    /\ downloads_status = <<>>
    /\ cli_pc = "idle"
    /\ cli_i = 0
    /\ cli_run = 0
    /\ startup_json = <<>>
    /\ downloaded = {}
    /\ extracted_ok = {}
    /\ run1_clean = TRUE
    /\ downloads_dir = <<>>
    /\ extracted_archive = <<>>
    \* ---- Zip idle ----
    /\ z_target = <<>>
    /\ z_overwrite = FALSE
    /\ z_fs = {}
    /\ z_written = {}
    /\ z_entry = NoEntry
    /\ z_skipped = FALSE
    /\ z_i = 0
    /\ z_total = 0
    /\ z_files_extracted = 0
    /\ z_failed = 0
    /\ z_pc = "idle"
    \* ---- DL idle ----
    /\ dl_resume = FALSE
    /\ dl_file = Absent
    /\ dl_initial = Absent
    /\ dl_existing_size = 0
    /\ dl_attempt = 0
    /\ dl_exchange = NoExchange
    /\ dl_partial = FALSE
    /\ dl_result = NoResult
    /\ dl_pc = "idle"
    /\ dl_max_retries = 0
    /\ dl_calls = 0
    /\ dl_sleeps = 0
    /\ dl_returns = "nothing"
    /\ dl_last = NoResult
    \* ---- Save idle ----
    /\ sv_saver = ""
    /\ sv_disk = NoFile
    /\ sv_before = NoFile
    /\ sv_dictionary = <<>>
    /\ sv_pc = "idle"
    \* ---- Flat idle ----
    /\ f_archive = <<>>
    /\ f_valid = FALSE
    /\ f_target = {}
    /\ f_temp = {}
    /\ f_root = NoRoot
    /\ f_i = 0
    /\ f_items = {}
    /\ f_success = FALSE
    /\ f_files_extracted = 0
    /\ f_pc = "idle"
    \* ---- Load idle ----
    /\ ld_loader = ""
    /\ ld_file = NoFile
    /\ ld_readable = TRUE
    /\ ld_value = NothingLoaded
    /\ ld_pc = "idle"
    \* ---- Cancel idle ----
    /\ c_unlink_open = FALSE
    /\ c_path = "None"
    /\ c_cancelled = FALSE
    /\ c_file = NoCacheFile
    /\ c_open = "closed"
    /\ c_attempt = 0
    /\ c_chunks = 0
    /\ c_cancel_at = ""
    /\ c_extracted = FALSE
    /\ c_recorded = FALSE
    /\ c_run = 0
    /\ w_pc = "idle"
    /\ u_pc = "idle"
    \* ---- Passes idle ----
    /\ ip_objects = <<>>
    /\ ip_success = {}
    /\ ip_pass = ""
    /\ ip_i = 0
    /\ ip_extracted = <<>>
    /\ ip_pc = "idle"
    \* ---- Shared idle ----
    /\ sh_obs_archive = <<>>
    /\ sh_plugin_files = {}
    /\ sh_install = {}
    /\ sh_record = NoPluginRecord
    /\ sh_cache = FALSE
    /\ sh_latest = "v1"
    /\ sh_options = [reinstall_obs |-> FALSE, install_plugins |-> FALSE]
    /\ sh_reported = "none"
    /\ sh_extract_result = FALSE
    /\ sh_run = 0
    /\ sh_pc = "idle"
    \* ---- Cache idle ----
    /\ gh_server = <<>>
    /\ gh_cache = {}
    /\ gh_now = 0
    /\ gh_last = NoCacheCall
    \* ---- Move idle ----
    /\ mv_source = {}
    /\ mv_before = {}
    /\ mv_locked = {}
    /\ mv_dest = <<>>
    /\ mv_todo = {}
    /\ mv_sub_todo = {}
    /\ mv_pc = "idle"

InitZip ==
    \* ---- Zip ----
    /\ z_target \in TargetPaths
    /\ z_overwrite \in BOOLEAN
    /\ z_fs = { <<"inst">>, <<"inst", "a">>, <<"out">> }
    /\ z_written = {}
    /\ z_entry = NoEntry
    /\ z_skipped = FALSE
    /\ z_i = 0
    /\ z_total \in 1..MaxEntries
    /\ z_files_extracted = 0
    /\ z_failed = 0
    /\ z_pc = "extracting"
    \* ---- Asset idle ----
    /\ assets = <<>>
    /\ filename_pattern = <<>>
    /\ matching_asset = 0
    /\ fm_pc = "idle"
    \* ---- Decide idle ----
    /\ d_force = FALSE
    /\ d_pattern = <<>>
    /\ d_filename = PyFalse
    /\ d_tag = "None"
    /\ d_record = NoRecord
    /\ d_download = FALSE
    /\ d_pc = "idle"
    \* ---- CLI idle ----
    /\ json_data = <<>>
    /\ upstream = <<>>
    /\ versions_json = <<>>
    /\ installed_versions = <<>>
    /\ downloads_status = <<>>
    /\ cli_pc = "idle"
    /\ cli_i = 0
    /\ cli_run = 0
    /\ startup_json = <<>>
    /\ downloaded = {}
    /\ extracted_ok = {}
    /\ run1_clean = TRUE
    /\ downloads_dir = <<>>
    /\ extracted_archive = <<>>
    \* ---- GUI idle ----
    /\ options = <<>>
    /\ last_obs_version = ""
    /\ obs_cache = "none"
    /\ plugin_versions_json = <<>>
    /\ downloaded_versions = <<>>
    /\ plugin_files = {}
    /\ latest_release = NoRelease
    /\ g_pc = "idle"
    /\ g_i = 0
    /\ g_run = 0
    /\ cancelled = FALSE
    /\ g_processed = {}
    /\ g_extracted = {}
    /\ g_start_obs = ""
    /\ g_start_versions = <<>>
    /\ g_nu = NoCall
    /\ current_download_path = "None"
    \* ---- DL idle ----
    /\ dl_resume = FALSE
    /\ dl_file = Absent
    /\ dl_initial = Absent
    /\ dl_existing_size = 0
    /\ dl_attempt = 0
    /\ dl_exchange = NoExchange
    /\ dl_partial = FALSE
    /\ dl_result = NoResult
    /\ dl_pc = "idle"
    /\ dl_max_retries = 0
    /\ dl_calls = 0
    /\ dl_sleeps = 0
    /\ dl_returns = "nothing"
    /\ dl_last = NoResult
    \* ---- Save idle ----
    /\ sv_saver = ""
    /\ sv_disk = NoFile
    /\ sv_before = NoFile
    /\ sv_dictionary = <<>>
    /\ sv_pc = "idle"
    \* ---- Flat idle ----
    /\ f_archive = <<>>
    /\ f_valid = FALSE
    /\ f_target = {}
    /\ f_temp = {}
    /\ f_root = NoRoot
    /\ f_i = 0
    /\ f_items = {}
    /\ f_success = FALSE
    /\ f_files_extracted = 0
    /\ f_pc = "idle"
    \* ---- Load idle ----
    /\ ld_loader = ""
    /\ ld_file = NoFile
    /\ ld_readable = TRUE
    /\ ld_value = NothingLoaded
    /\ ld_pc = "idle"
    \* ---- Cancel idle ----
    /\ c_unlink_open = FALSE
    /\ c_path = "None"
    /\ c_cancelled = FALSE
    /\ c_file = NoCacheFile
    /\ c_open = "closed"
    /\ c_attempt = 0
    /\ c_chunks = 0
    /\ c_cancel_at = ""
    /\ c_extracted = FALSE
    /\ c_recorded = FALSE
    /\ c_run = 0
    /\ w_pc = "idle"
    /\ u_pc = "idle"
    \* ---- Passes idle ----
    /\ ip_objects = <<>>
    /\ ip_success = {}
    /\ ip_pass = ""
    /\ ip_i = 0
    /\ ip_extracted = <<>>
    /\ ip_pc = "idle"
    \* ---- Shared idle ----
    /\ sh_obs_archive = <<>>
    /\ sh_plugin_files = {}
    /\ sh_install = {}
    /\ sh_record = NoPluginRecord
    /\ sh_cache = FALSE
    /\ sh_latest = "v1"
    /\ sh_options = [reinstall_obs |-> FALSE, install_plugins |-> FALSE]
    /\ sh_reported = "none"
    /\ sh_extract_result = FALSE
    /\ sh_run = 0
    /\ sh_pc = "idle"
    \* ---- Cache idle ----
    /\ gh_server = <<>>
    /\ gh_cache = {}
    /\ gh_now = 0
    /\ gh_last = NoCacheCall
    \* ---- Move idle ----
    /\ mv_source = {}
    /\ mv_before = {}
    /\ mv_locked = {}
    /\ mv_dest = <<>>
    /\ mv_todo = {}
    /\ mv_sub_todo = {}
    /\ mv_pc = "idle"

InitDL ==
    \* ---- DL ----
    /\ dl_resume \in BOOLEAN
    /\ dl_file \in {Absent, Holding(StaleContent)}
                   \cup { Holding(Prefix(RemoteContent, n)) : n \in 0..MaxBytes }
    /\ dl_initial = dl_file
    /\ dl_existing_size = 0
    /\ dl_attempt = 0
    /\ dl_exchange = NoExchange
    /\ dl_partial = FALSE
    /\ dl_result = NoResult
    /\ dl_pc = "download_file"
    /\ dl_max_retries \in 0..max_retries
    /\ dl_calls = 0
    /\ dl_sleeps = 0
    /\ dl_returns = "nothing"
    /\ dl_last = NoResult
    \* ---- Asset idle ----
    /\ assets = <<>>
    /\ filename_pattern = <<>>
    /\ matching_asset = 0
    /\ fm_pc = "idle"
    \* ---- Decide idle ----
    /\ d_force = FALSE
    /\ d_pattern = <<>>
    /\ d_filename = PyFalse
    /\ d_tag = "None"
    /\ d_record = NoRecord
    /\ d_download = FALSE
    /\ d_pc = "idle"
    \* ---- CLI idle ----
    /\ json_data = <<>>
    /\ upstream = <<>>
    /\ versions_json = <<>>
    /\ installed_versions = <<>>
    /\ downloads_status = <<>>
    /\ cli_pc = "idle"
    /\ cli_i = 0
    /\ cli_run = 0
    /\ startup_json = <<>>
    /\ downloaded = {}
    /\ extracted_ok = {}
    /\ run1_clean = TRUE
    /\ downloads_dir = <<>>
    /\ extracted_archive = <<>>
    \* ---- GUI idle ----
    /\ options = <<>>
    /\ last_obs_version = ""
    /\ obs_cache = "none"
    /\ plugin_versions_json = <<>>
    /\ downloaded_versions = <<>>
    /\ plugin_files = {}
    /\ latest_release = NoRelease
    /\ g_pc = "idle"
    /\ g_i = 0
    /\ g_run = 0
    /\ cancelled = FALSE
    /\ g_processed = {}
    /\ g_extracted = {}
    /\ g_start_obs = ""
    /\ g_start_versions = <<>>
    /\ g_nu = NoCall
    /\ current_download_path = "None"
    \* ---- Zip idle ----
    /\ z_target = <<>>
    /\ z_overwrite = FALSE
    /\ z_fs = {}
    /\ z_written = {}
    /\ z_entry = NoEntry
    /\ z_skipped = FALSE
    /\ z_i = 0
    /\ z_total = 0
    /\ z_files_extracted = 0
    /\ z_failed = 0
    /\ z_pc = "idle"
    \* ---- Save idle ----
    /\ sv_saver = ""
    /\ sv_disk = NoFile
    /\ sv_before = NoFile
    /\ sv_dictionary = <<>>
    /\ sv_pc = "idle"
    \* ---- Flat idle ----
    /\ f_archive = <<>>
    /\ f_valid = FALSE
    /\ f_target = {}
    /\ f_temp = {}
    /\ f_root = NoRoot
    /\ f_i = 0
    /\ f_items = {}
    /\ f_success = FALSE
    /\ f_files_extracted = 0
    /\ f_pc = "idle"
    \* ---- Load idle ----
    /\ ld_loader = ""
    /\ ld_file = NoFile
    /\ ld_readable = TRUE
    /\ ld_value = NothingLoaded
    /\ ld_pc = "idle"
    \* ---- Cancel idle ----
    /\ c_unlink_open = FALSE
    /\ c_path = "None"
    /\ c_cancelled = FALSE
    /\ c_file = NoCacheFile
    /\ c_open = "closed"
    /\ c_attempt = 0
    /\ c_chunks = 0
    /\ c_cancel_at = ""
    /\ c_extracted = FALSE
    /\ c_recorded = FALSE
    /\ c_run = 0
    /\ w_pc = "idle"
    /\ u_pc = "idle"
    \* ---- Passes idle ----
    /\ ip_objects = <<>>
    /\ ip_success = {}
    /\ ip_pass = ""
    /\ ip_i = 0
    /\ ip_extracted = <<>>
    /\ ip_pc = "idle"
    \* ---- Shared idle ----
    /\ sh_obs_archive = <<>>
    /\ sh_plugin_files = {}
    /\ sh_install = {}
    /\ sh_record = NoPluginRecord
    /\ sh_cache = FALSE
    /\ sh_latest = "v1"
    /\ sh_options = [reinstall_obs |-> FALSE, install_plugins |-> FALSE]
    /\ sh_reported = "none"
    /\ sh_extract_result = FALSE
    /\ sh_run = 0
    /\ sh_pc = "idle"
    \* ---- Cache idle ----
    /\ gh_server = <<>>
    /\ gh_cache = {}
    /\ gh_now = 0
    /\ gh_last = NoCacheCall
    \* ---- Move idle ----
    /\ mv_source = {}
    /\ mv_before = {}
    /\ mv_locked = {}
    /\ mv_dest = <<>>
    /\ mv_todo = {}
    /\ mv_sub_todo = {}
    /\ mv_pc = "idle"

InitSave ==
    \* ---- Save ----
    /\ sv_saver \in Savers
    /\ sv_disk \in {NoFile} \cup { FileWith(json_dump(d)) : d \in Saveable(sv_saver) }
    /\ sv_before = sv_disk
    /\ sv_dictionary \in Saveable(sv_saver)
    /\ sv_pc = "save"
    \* ---- Asset idle ----
    /\ assets = <<>>
    /\ filename_pattern = <<>>
    /\ matching_asset = 0
    /\ fm_pc = "idle"
    \* ---- Decide idle ----
    /\ d_force = FALSE
    /\ d_pattern = <<>>
    /\ d_filename = PyFalse
    /\ d_tag = "None"
    /\ d_record = NoRecord
    /\ d_download = FALSE
    /\ d_pc = "idle"
    \* ---- CLI idle ----
    /\ json_data = <<>>
    /\ upstream = <<>>
    /\ versions_json = <<>>
    /\ installed_versions = <<>>
    /\ downloads_status = <<>>
    /\ cli_pc = "idle"
    /\ cli_i = 0
    /\ cli_run = 0
    /\ startup_json = <<>>
    /\ downloaded = {}
    /\ extracted_ok = {}
    /\ run1_clean = TRUE
    /\ downloads_dir = <<>>
    /\ extracted_archive = <<>>
    \* ---- GUI idle ----
    /\ options = <<>>
    /\ last_obs_version = ""
    /\ obs_cache = "none"
    /\ plugin_versions_json = <<>>
    /\ downloaded_versions = <<>>
    /\ plugin_files = {}
    /\ latest_release = NoRelease
    /\ g_pc = "idle"
    /\ g_i = 0
    /\ g_run = 0
    /\ cancelled = FALSE
    /\ g_processed = {}
    /\ g_extracted = {}
    /\ g_start_obs = ""
    /\ g_start_versions = <<>>
    /\ g_nu = NoCall
    /\ current_download_path = "None"
    \* ---- Zip idle ----
    /\ z_target = <<>>
    /\ z_overwrite = FALSE
    /\ z_fs = {}
    /\ z_written = {}
    /\ z_entry = NoEntry
    /\ z_skipped = FALSE
    /\ z_i = 0
    /\ z_total = 0
    /\ z_files_extracted = 0
    /\ z_failed = 0
    /\ z_pc = "idle"
    \* ---- DL idle ----
    /\ dl_resume = FALSE
    /\ dl_file = Absent
    /\ dl_initial = Absent
    /\ dl_existing_size = 0
    /\ dl_attempt = 0
    /\ dl_exchange = NoExchange
    /\ dl_partial = FALSE
    /\ dl_result = NoResult
    /\ dl_pc = "idle"
    /\ dl_max_retries = 0
    /\ dl_calls = 0
    /\ dl_sleeps = 0
    /\ dl_returns = "nothing"
    /\ dl_last = NoResult
    \* ---- Flat idle ----
    /\ f_archive = <<>>
    /\ f_valid = FALSE
    /\ f_target = {}
    /\ f_temp = {}
    /\ f_root = NoRoot
    /\ f_i = 0
    /\ f_items = {}
    /\ f_success = FALSE
    /\ f_files_extracted = 0
    /\ f_pc = "idle"
    \* ---- Load idle ----
    /\ ld_loader = ""
    /\ ld_file = NoFile
    /\ ld_readable = TRUE
    /\ ld_value = NothingLoaded
    /\ ld_pc = "idle"
    \* ---- Cancel idle ----
    /\ c_unlink_open = FALSE
    /\ c_path = "None"
    /\ c_cancelled = FALSE
    /\ c_file = NoCacheFile
    /\ c_open = "closed"
    /\ c_attempt = 0
    /\ c_chunks = 0
    /\ c_cancel_at = ""
    /\ c_extracted = FALSE
    /\ c_recorded = FALSE
    /\ c_run = 0
    /\ w_pc = "idle"
    /\ u_pc = "idle"
    \* ---- Passes idle ----
    /\ ip_objects = <<>>
    /\ ip_success = {}
    /\ ip_pass = ""
    /\ ip_i = 0
    /\ ip_extracted = <<>>
    /\ ip_pc = "idle"
    \* ---- Shared idle ----
    /\ sh_obs_archive = <<>>
    /\ sh_plugin_files = {}
    /\ sh_install = {}
    /\ sh_record = NoPluginRecord
    /\ sh_cache = FALSE
    /\ sh_latest = "v1"
    /\ sh_options = [reinstall_obs |-> FALSE, install_plugins |-> FALSE]
    /\ sh_reported = "none"
    /\ sh_extract_result = FALSE
    /\ sh_run = 0
    /\ sh_pc = "idle"
    \* ---- Cache idle ----
    /\ gh_server = <<>>
    /\ gh_cache = {}
    /\ gh_now = 0
    /\ gh_last = NoCacheCall
    \* ---- Move idle ----
    /\ mv_source = {}
    /\ mv_before = {}
    /\ mv_locked = {}
    /\ mv_dest = <<>>
    /\ mv_todo = {}
    /\ mv_sub_todo = {}
    /\ mv_pc = "idle"

InitFlat ==
    \* ---- Flat ----
    /\ f_archive \in FlatArchives
    /\ f_valid \in BOOLEAN
    /\ f_target \in FlatTargets
    /\ f_temp = {}
    /\ f_root = NoRoot
    /\ f_i = 0
    /\ f_items = {}
    /\ f_success = FALSE
    /\ f_files_extracted = 0
    /\ f_pc = "get_zip_info"
    \* ---- Asset idle ----
    /\ assets = <<>>
    /\ filename_pattern = <<>>
    /\ matching_asset = 0
    /\ fm_pc = "idle"
    \* ---- Decide idle ----
    /\ d_force = FALSE
    /\ d_pattern = <<>>
    /\ d_filename = PyFalse
    /\ d_tag = "None"
    /\ d_record = NoRecord
    /\ d_download = FALSE
    /\ d_pc = "idle"
    \* ---- CLI idle ----
    /\ json_data = <<>>
    /\ upstream = <<>>
    /\ versions_json = <<>>
    /\ installed_versions = <<>>
    /\ downloads_status = <<>>
    /\ cli_pc = "idle"
    /\ cli_i = 0
    /\ cli_run = 0
    /\ startup_json = <<>>
    /\ downloaded = {}
    /\ extracted_ok = {}
    /\ run1_clean = TRUE
    /\ downloads_dir = <<>>
    /\ extracted_archive = <<>>
    \* ---- GUI idle ----
    /\ options = <<>>
    /\ last_obs_version = ""
    /\ obs_cache = "none"
    /\ plugin_versions_json = <<>>
    /\ downloaded_versions = <<>>
    /\ plugin_files = {}
    /\ latest_release = NoRelease
    /\ g_pc = "idle"
    /\ g_i = 0
    /\ g_run = 0
    /\ cancelled = FALSE
    /\ g_processed = {}
    /\ g_extracted = {}
    /\ g_start_obs = ""
    /\ g_start_versions = <<>>
    /\ g_nu = NoCall
    /\ current_download_path = "None"
    \* ---- Zip idle ----
    /\ z_target = <<>>
    /\ z_overwrite = FALSE
    /\ z_fs = {}
    /\ z_written = {}
    /\ z_entry = NoEntry
    /\ z_skipped = FALSE
    /\ z_i = 0
    /\ z_total = 0
    /\ z_files_extracted = 0
    /\ z_failed = 0
    /\ z_pc = "idle"
    \* ---- DL idle ----
    /\ dl_resume = FALSE
    /\ dl_file = Absent
    /\ dl_initial = Absent
    /\ dl_existing_size = 0
    /\ dl_attempt = 0
    /\ dl_exchange = NoExchange
    /\ dl_partial = FALSE
    /\ dl_result = NoResult
    /\ dl_pc = "idle"
    /\ dl_max_retries = 0
    /\ dl_calls = 0
    /\ dl_sleeps = 0
    /\ dl_returns = "nothing"
    /\ dl_last = NoResult
    \* ---- Save idle ----
    /\ sv_saver = ""
    /\ sv_disk = NoFile
    /\ sv_before = NoFile
    /\ sv_dictionary = <<>>
    /\ sv_pc = "idle"
    \* ---- Load idle ----
    /\ ld_loader = ""
    /\ ld_file = NoFile
    /\ ld_readable = TRUE
    /\ ld_value = NothingLoaded
    /\ ld_pc = "idle"
    \* ---- Cancel idle ----
    /\ c_unlink_open = FALSE
    /\ c_path = "None"
    /\ c_cancelled = FALSE
    /\ c_file = NoCacheFile
    /\ c_open = "closed"
    /\ c_attempt = 0
    /\ c_chunks = 0
    /\ c_cancel_at = ""
    /\ c_extracted = FALSE
    /\ c_recorded = FALSE
    /\ c_run = 0
    /\ w_pc = "idle"
    /\ u_pc = "idle"
    \* ---- Passes idle ----
    /\ ip_objects = <<>>
    /\ ip_success = {}
    /\ ip_pass = ""
    /\ ip_i = 0
    /\ ip_extracted = <<>>
    /\ ip_pc = "idle"
    \* ---- Shared idle ----
    /\ sh_obs_archive = <<>>
    /\ sh_plugin_files = {}
    /\ sh_install = {}
    /\ sh_record = NoPluginRecord
    /\ sh_cache = FALSE
    /\ sh_latest = "v1"
    /\ sh_options = [reinstall_obs |-> FALSE, install_plugins |-> FALSE]
    /\ sh_reported = "none"
    /\ sh_extract_result = FALSE
    /\ sh_run = 0
    /\ sh_pc = "idle"
    \* ---- Cache idle ----
    /\ gh_server = <<>>
    /\ gh_cache = {}
    /\ gh_now = 0
    /\ gh_last = NoCacheCall
    \* ---- Move idle ----
    /\ mv_source = {}
    /\ mv_before = {}
    /\ mv_locked = {}
    /\ mv_dest = <<>>
    /\ mv_todo = {}
    /\ mv_sub_todo = {}
    /\ mv_pc = "idle"

InitLoad ==
    \* ---- Load ----
    /\ ld_loader \in Loaders
    /\ ld_file \in {NoFile} \cup { FileWith(t) : t \in LoadTexts }
    /\ ld_readable \in (IF ld_file.exists THEN BOOLEAN ELSE {TRUE})
    /\ ld_value = NothingLoaded
    /\ ld_pc = "open"
    \* ---- Asset idle ----
    /\ assets = <<>>
    /\ filename_pattern = <<>>
    /\ matching_asset = 0
    /\ fm_pc = "idle"
    \* ---- Decide idle ----
    /\ d_force = FALSE
    /\ d_pattern = <<>>
    /\ d_filename = PyFalse
    /\ d_tag = "None"
    /\ d_record = NoRecord
    /\ d_download = FALSE
    /\ d_pc = "idle"
    \* ---- CLI idle ----
    /\ json_data = <<>>
    /\ upstream = <<>>
    /\ versions_json = <<>>
    /\ installed_versions = <<>>
    /\ downloads_status = <<>>
    /\ cli_pc = "idle"
    /\ cli_i = 0
    /\ cli_run = 0
    /\ startup_json = <<>>
    /\ downloaded = {}
    /\ extracted_ok = {}
    /\ run1_clean = TRUE
    /\ downloads_dir = <<>>
    /\ extracted_archive = <<>>
    \* ---- GUI idle ----
    /\ options = <<>>
    /\ last_obs_version = ""
    /\ obs_cache = "none"
    /\ plugin_versions_json = <<>>
    /\ downloaded_versions = <<>>
    /\ plugin_files = {}
    /\ latest_release = NoRelease
    /\ g_pc = "idle"
    /\ g_i = 0
    /\ g_run = 0
    /\ cancelled = FALSE
    /\ g_processed = {}
    /\ g_extracted = {}
    /\ g_start_obs = ""
    /\ g_start_versions = <<>>
    /\ g_nu = NoCall
    /\ current_download_path = "None"
    \* ---- Zip idle ----
    /\ z_target = <<>>
    /\ z_overwrite = FALSE
    /\ z_fs = {}
    /\ z_written = {}
    /\ z_entry = NoEntry
    /\ z_skipped = FALSE
    /\ z_i = 0
    /\ z_total = 0
    /\ z_files_extracted = 0
    /\ z_failed = 0
    /\ z_pc = "idle"
    \* ---- DL idle ----
    /\ dl_resume = FALSE
    /\ dl_file = Absent
    /\ dl_initial = Absent
    /\ dl_existing_size = 0
    /\ dl_attempt = 0
    /\ dl_exchange = NoExchange
    /\ dl_partial = FALSE
    /\ dl_result = NoResult
    /\ dl_pc = "idle"
    /\ dl_max_retries = 0
    /\ dl_calls = 0
    /\ dl_sleeps = 0
    /\ dl_returns = "nothing"
    /\ dl_last = NoResult
    \* ---- Save idle ----
    /\ sv_saver = ""
    /\ sv_disk = NoFile
    /\ sv_before = NoFile
    /\ sv_dictionary = <<>>
    /\ sv_pc = "idle"
    \* ---- Flat idle ----
    /\ f_archive = <<>>
    /\ f_valid = FALSE
    /\ f_target = {}
    /\ f_temp = {}
    /\ f_root = NoRoot
    /\ f_i = 0
    /\ f_items = {}
    /\ f_success = FALSE
    /\ f_files_extracted = 0
    /\ f_pc = "idle"
    \* ---- Cancel idle ----
    /\ c_unlink_open = FALSE
    /\ c_path = "None"
    /\ c_cancelled = FALSE
    /\ c_file = NoCacheFile
    /\ c_open = "closed"
    /\ c_attempt = 0
    /\ c_chunks = 0
    /\ c_cancel_at = ""
    /\ c_extracted = FALSE
    /\ c_recorded = FALSE
    /\ c_run = 0
    /\ w_pc = "idle"
    /\ u_pc = "idle"
    \* ---- Passes idle ----
    /\ ip_objects = <<>>
    /\ ip_success = {}
    /\ ip_pass = ""
    /\ ip_i = 0
    /\ ip_extracted = <<>>
    /\ ip_pc = "idle"
    \* ---- Shared idle ----
    /\ sh_obs_archive = <<>>
    /\ sh_plugin_files = {}
    /\ sh_install = {}
    /\ sh_record = NoPluginRecord
    /\ sh_cache = FALSE
    /\ sh_latest = "v1"
    /\ sh_options = [reinstall_obs |-> FALSE, install_plugins |-> FALSE]
    /\ sh_reported = "none"
    /\ sh_extract_result = FALSE
    /\ sh_run = 0
    /\ sh_pc = "idle"
    \* ---- Cache idle ----
    /\ gh_server = <<>>
    /\ gh_cache = {}
    /\ gh_now = 0
    /\ gh_last = NoCacheCall
    \* ---- Move idle ----
    /\ mv_source = {}
    /\ mv_before = {}
    /\ mv_locked = {}
    /\ mv_dest = <<>>
    /\ mv_todo = {}
    /\ mv_sub_todo = {}
    /\ mv_pc = "idle"

InitCancel ==
    \* ---- Cancel ----
    /\ c_unlink_open \in BOOLEAN
    /\ c_path = "None"
    /\ c_cancelled = FALSE
    /\ c_file = NoCacheFile
    /\ c_open = "closed"
    /\ c_attempt = 0
    /\ c_chunks = 0
    /\ c_cancel_at = ""
    /\ c_extracted = FALSE
    /\ c_recorded = FALSE
    /\ c_run = 1
    /\ w_pc = "check_if_download_needed"
    /\ u_pc = "running"
    \* ---- Asset idle ----
    /\ assets = <<>>
    /\ filename_pattern = <<>>
    /\ matching_asset = 0
    /\ fm_pc = "idle"
    \* ---- Decide idle ----
    /\ d_force = FALSE
    /\ d_pattern = <<>>
    /\ d_filename = PyFalse
    /\ d_tag = "None"
    /\ d_record = NoRecord
    /\ d_download = FALSE
    /\ d_pc = "idle"
    \* ---- CLI idle ----
    /\ json_data = <<>>
    /\ upstream = <<>>
    /\ versions_json = <<>>
    /\ installed_versions = <<>>
    /\ downloads_status = <<>>
    /\ cli_pc = "idle"
    /\ cli_i = 0
    /\ cli_run = 0
    /\ startup_json = <<>>
    /\ downloaded = {}
    /\ extracted_ok = {}
    /\ run1_clean = TRUE
    /\ downloads_dir = <<>>
    /\ extracted_archive = <<>>
    \* ---- GUI idle ----
    /\ options = <<>>
    /\ last_obs_version = ""
    /\ obs_cache = "none"
    /\ plugin_versions_json = <<>>
    /\ downloaded_versions = <<>>
    /\ plugin_files = {}
    /\ latest_release = NoRelease
    /\ g_pc = "idle"
    /\ g_i = 0
    /\ g_run = 0
    /\ cancelled = FALSE
    /\ g_processed = {}
    /\ g_extracted = {}
    /\ g_start_obs = ""
    /\ g_start_versions = <<>>
    /\ g_nu = NoCall
    /\ current_download_path = "None"
    \* ---- Zip idle ----
    /\ z_target = <<>>
    /\ z_overwrite = FALSE
    /\ z_fs = {}
    /\ z_written = {}
    /\ z_entry = NoEntry
    /\ z_skipped = FALSE
    /\ z_i = 0
    /\ z_total = 0
    /\ z_files_extracted = 0
    /\ z_failed = 0
    /\ z_pc = "idle"
    \* ---- DL idle ----
    /\ dl_resume = FALSE
    /\ dl_file = Absent
    /\ dl_initial = Absent
    /\ dl_existing_size = 0
    /\ dl_attempt = 0
    /\ dl_exchange = NoExchange
    /\ dl_partial = FALSE
    /\ dl_result = NoResult
    /\ dl_pc = "idle"
    /\ dl_max_retries = 0
    /\ dl_calls = 0
    /\ dl_sleeps = 0
    /\ dl_returns = "nothing"
    /\ dl_last = NoResult
    \* ---- Save idle ----
    /\ sv_saver = ""
    /\ sv_disk = NoFile
    /\ sv_before = NoFile
    /\ sv_dictionary = <<>>
    /\ sv_pc = "idle"
    \* ---- Flat idle ----
    /\ f_archive = <<>>
    /\ f_valid = FALSE
    /\ f_target = {}
    /\ f_temp = {}
    /\ f_root = NoRoot
    /\ f_i = 0
    /\ f_items = {}
    /\ f_success = FALSE
    /\ f_files_extracted = 0
    /\ f_pc = "idle"
    \* ---- Load idle ----
    /\ ld_loader = ""
    /\ ld_file = NoFile
    /\ ld_readable = TRUE
    /\ ld_value = NothingLoaded
    /\ ld_pc = "idle"
    \* ---- Passes idle ----
    /\ ip_objects = <<>>
    /\ ip_success = {}
    /\ ip_pass = ""
    /\ ip_i = 0
    /\ ip_extracted = <<>>
    /\ ip_pc = "idle"
    \* ---- Shared idle ----
    /\ sh_obs_archive = <<>>
    /\ sh_plugin_files = {}
    /\ sh_install = {}
    /\ sh_record = NoPluginRecord
    /\ sh_cache = FALSE
    /\ sh_latest = "v1"
    /\ sh_options = [reinstall_obs |-> FALSE, install_plugins |-> FALSE]
    /\ sh_reported = "none"
    /\ sh_extract_result = FALSE
    /\ sh_run = 0
    /\ sh_pc = "idle"
    \* ---- Cache idle ----
    /\ gh_server = <<>>
    /\ gh_cache = {}
    /\ gh_now = 0
    /\ gh_last = NoCacheCall
    \* ---- Move idle ----
    /\ mv_source = {}
    /\ mv_before = {}
    /\ mv_locked = {}
    /\ mv_dest = <<>>
    /\ mv_todo = {}
    /\ mv_sub_todo = {}
    /\ mv_pc = "idle"

InitPasses ==
    \* ---- Passes ----
    /\ ip_objects \in PassConfigs
    /\ ip_success \in SUBSET { ip_objects[i] : i \in DOMAIN ip_objects }
    /\ ip_pass = "OBS"
    /\ ip_i = 1
    /\ ip_extracted = <<>>
    /\ ip_pc = "install_downloads"
    \* ---- Asset idle ----
    /\ assets = <<>>
    /\ filename_pattern = <<>>
    /\ matching_asset = 0
    /\ fm_pc = "idle"
    \* ---- Decide idle ----
    /\ d_force = FALSE
    /\ d_pattern = <<>>
    /\ d_filename = PyFalse
    /\ d_tag = "None"
    /\ d_record = NoRecord
    /\ d_download = FALSE
    /\ d_pc = "idle"
    \* ---- CLI idle ----
    /\ json_data = <<>>
    /\ upstream = <<>>
    /\ versions_json = <<>>
    /\ installed_versions = <<>>
    /\ downloads_status = <<>>
    /\ cli_pc = "idle"
    /\ cli_i = 0
    /\ cli_run = 0
    /\ startup_json = <<>>
    /\ downloaded = {}
    /\ extracted_ok = {}
    /\ run1_clean = TRUE
    /\ downloads_dir = <<>>
    /\ extracted_archive = <<>>
    \* ---- GUI idle ----
    /\ options = <<>>
    /\ last_obs_version = ""
    /\ obs_cache = "none"
    /\ plugin_versions_json = <<>>
    /\ downloaded_versions = <<>>
    /\ plugin_files = {}
    /\ latest_release = NoRelease
    /\ g_pc = "idle"
    /\ g_i = 0
    /\ g_run = 0
    /\ cancelled = FALSE
    /\ g_processed = {}
    /\ g_extracted = {}
    /\ g_start_obs = ""
    /\ g_start_versions = <<>>
    /\ g_nu = NoCall
    /\ current_download_path = "None"
    \* ---- Zip idle ----
    /\ z_target = <<>>
    /\ z_overwrite = FALSE
    /\ z_fs = {}
    /\ z_written = {}
    /\ z_entry = NoEntry
    /\ z_skipped = FALSE
    /\ z_i = 0
    /\ z_total = 0
    /\ z_files_extracted = 0
    /\ z_failed = 0
    /\ z_pc = "idle"
    \* ---- DL idle ----
    /\ dl_resume = FALSE
    /\ dl_file = Absent
    /\ dl_initial = Absent
    /\ dl_existing_size = 0
    /\ dl_attempt = 0
    /\ dl_exchange = NoExchange
    /\ dl_partial = FALSE
    /\ dl_result = NoResult
    /\ dl_pc = "idle"
    /\ dl_max_retries = 0
    /\ dl_calls = 0
    /\ dl_sleeps = 0
    /\ dl_returns = "nothing"
    /\ dl_last = NoResult
    \* ---- Save idle ----
    /\ sv_saver = ""
    /\ sv_disk = NoFile
    /\ sv_before = NoFile
    /\ sv_dictionary = <<>>
    /\ sv_pc = "idle"
    \* ---- Flat idle ----
    /\ f_archive = <<>>
    /\ f_valid = FALSE
    /\ f_target = {}
    /\ f_temp = {}
    /\ f_root = NoRoot
    /\ f_i = 0
    /\ f_items = {}
    /\ f_success = FALSE
    /\ f_files_extracted = 0
    /\ f_pc = "idle"
    \* ---- Load idle ----
    /\ ld_loader = ""
    /\ ld_file = NoFile
    /\ ld_readable = TRUE
    /\ ld_value = NothingLoaded
    /\ ld_pc = "idle"
    \* ---- Cancel idle ----
    /\ c_unlink_open = FALSE
    /\ c_path = "None"
    /\ c_cancelled = FALSE
    /\ c_file = NoCacheFile
    /\ c_open = "closed"
    /\ c_attempt = 0
    /\ c_chunks = 0
    /\ c_cancel_at = ""
    /\ c_extracted = FALSE
    /\ c_recorded = FALSE
    /\ c_run = 0
    /\ w_pc = "idle"
    /\ u_pc = "idle"
    \* ---- Shared idle ----
    /\ sh_obs_archive = <<>>
    /\ sh_plugin_files = {}
    /\ sh_install = {}
    /\ sh_record = NoPluginRecord
    /\ sh_cache = FALSE
    /\ sh_latest = "v1"
    /\ sh_options = [reinstall_obs |-> FALSE, install_plugins |-> FALSE]
    /\ sh_reported = "none"
    /\ sh_extract_result = FALSE
    /\ sh_run = 0
    /\ sh_pc = "idle"
    \* ---- Cache idle ----
    /\ gh_server = <<>>
    /\ gh_cache = {}
    /\ gh_now = 0
    /\ gh_last = NoCacheCall
    \* ---- Move idle ----
    /\ mv_source = {}
    /\ mv_before = {}
    /\ mv_locked = {}
    /\ mv_dest = <<>>
    /\ mv_todo = {}
    /\ mv_sub_todo = {}
    /\ mv_pc = "idle"

InitShared ==
    \* ---- Shared ----
    /\ sh_obs_archive \in ObsArchives
    /\ sh_plugin_files \in PluginArchives
    /\ sh_install = {}
    /\ sh_record = NoPluginRecord
    /\ sh_cache = FALSE
    /\ sh_latest \in PluginVersions
    /\ sh_options \in GuiOptions
    /\ sh_reported = "none"
    /\ sh_extract_result = FALSE
    /\ sh_run = 1
    /\ sh_pc = "obs"
    \* ---- Asset idle ----
    /\ assets = <<>>
    /\ filename_pattern = <<>>
    /\ matching_asset = 0
    /\ fm_pc = "idle"
    \* ---- Decide idle ----
    /\ d_force = FALSE
    /\ d_pattern = <<>>
    /\ d_filename = PyFalse
    /\ d_tag = "None"
    /\ d_record = NoRecord
    /\ d_download = FALSE
    /\ d_pc = "idle"
    \* ---- CLI idle ----
    /\ json_data = <<>>
    /\ upstream = <<>>
    /\ versions_json = <<>>
    /\ installed_versions = <<>>
    /\ downloads_status = <<>>
    /\ cli_pc = "idle"
    /\ cli_i = 0
    /\ cli_run = 0
    /\ startup_json = <<>>
    /\ downloaded = {}
    /\ extracted_ok = {}
    /\ run1_clean = TRUE
    /\ downloads_dir = <<>>
    /\ extracted_archive = <<>>
    \* ---- GUI idle ----
    /\ options = <<>>
    /\ last_obs_version = ""
    /\ obs_cache = "none"
    /\ plugin_versions_json = <<>>
    /\ downloaded_versions = <<>>
    /\ plugin_files = {}
    /\ latest_release = NoRelease
    /\ g_pc = "idle"
    /\ g_i = 0
    /\ g_run = 0
    /\ cancelled = FALSE
    /\ g_processed = {}
    /\ g_extracted = {}
    /\ g_start_obs = ""
    /\ g_start_versions = <<>>
    /\ g_nu = NoCall
    /\ current_download_path = "None"
    \* ---- Zip idle ----
    /\ z_target = <<>>
    /\ z_overwrite = FALSE
    /\ z_fs = {}
    /\ z_written = {}
    /\ z_entry = NoEntry
    /\ z_skipped = FALSE
    /\ z_i = 0
    /\ z_total = 0
    /\ z_files_extracted = 0
    /\ z_failed = 0
    /\ z_pc = "idle"
    \* ---- DL idle ----
    /\ dl_resume = FALSE
    /\ dl_file = Absent
    /\ dl_initial = Absent
    /\ dl_existing_size = 0
    /\ dl_attempt = 0
    /\ dl_exchange = NoExchange
    /\ dl_partial = FALSE
    /\ dl_result = NoResult
    /\ dl_pc = "idle"
    /\ dl_max_retries = 0
    /\ dl_calls = 0
    /\ dl_sleeps = 0
    /\ dl_returns = "nothing"
    /\ dl_last = NoResult
    \* ---- Save idle ----
    /\ sv_saver = ""
    /\ sv_disk = NoFile
    /\ sv_before = NoFile
    /\ sv_dictionary = <<>>
    /\ sv_pc = "idle"
    \* ---- Flat idle ----
    /\ f_archive = <<>>
    /\ f_valid = FALSE
    /\ f_target = {}
    /\ f_temp = {}
    /\ f_root = NoRoot
    /\ f_i = 0
    /\ f_items = {}
    /\ f_success = FALSE
    /\ f_files_extracted = 0
    /\ f_pc = "idle"
    \* ---- Load idle ----
    /\ ld_loader = ""
    /\ ld_file = NoFile
    /\ ld_readable = TRUE
    /\ ld_value = NothingLoaded
    /\ ld_pc = "idle"
    \* ---- Cancel idle ----
    /\ c_unlink_open = FALSE
    /\ c_path = "None"
    /\ c_cancelled = FALSE
    /\ c_file = NoCacheFile
    /\ c_open = "closed"
    /\ c_attempt = 0
    /\ c_chunks = 0
    /\ c_cancel_at = ""
    /\ c_extracted = FALSE
    /\ c_recorded = FALSE
    /\ c_run = 0
    /\ w_pc = "idle"
    /\ u_pc = "idle"
    \* ---- Passes idle ----
    /\ ip_objects = <<>>
    /\ ip_success = {}
    /\ ip_pass = ""
    /\ ip_i = 0
    /\ ip_extracted = <<>>
    /\ ip_pc = "idle"
    \* ---- Cache idle ----
    /\ gh_server = <<>>
    /\ gh_cache = {}
    /\ gh_now = 0
    /\ gh_last = NoCacheCall
    \* ---- Move idle ----
    /\ mv_source = {}
    /\ mv_before = {}
    /\ mv_locked = {}
    /\ mv_dest = <<>>
    /\ mv_todo = {}
    /\ mv_sub_todo = {}
    /\ mv_pc = "idle"

InitCache ==
    \* ---- Cache ----
    /\ gh_server \in ServerReleases
    /\ gh_cache = {}
    /\ gh_now = 0
    /\ gh_last = NoCacheCall
    \* ---- Asset idle ----
    /\ assets = <<>>
    /\ filename_pattern = <<>>
    /\ matching_asset = 0
    /\ fm_pc = "idle"
    \* ---- Decide idle ----
    /\ d_force = FALSE
    /\ d_pattern = <<>>
    /\ d_filename = PyFalse
    /\ d_tag = "None"
    /\ d_record = NoRecord
    /\ d_download = FALSE
    /\ d_pc = "idle"
    \* ---- CLI idle ----
    /\ json_data = <<>>
    /\ upstream = <<>>
    /\ versions_json = <<>>
    /\ installed_versions = <<>>
    /\ downloads_status = <<>>
    /\ cli_pc = "idle"
    /\ cli_i = 0
    /\ cli_run = 0
    /\ startup_json = <<>>
    /\ downloaded = {}
    /\ extracted_ok = {}
    /\ run1_clean = TRUE
    /\ downloads_dir = <<>>
    /\ extracted_archive = <<>>
    \* ---- GUI idle ----
    /\ options = <<>>
    /\ last_obs_version = ""
    /\ obs_cache = "none"
    /\ plugin_versions_json = <<>>
    /\ downloaded_versions = <<>>
    /\ plugin_files = {}
    /\ latest_release = NoRelease
    /\ g_pc = "idle"
    /\ g_i = 0
    /\ g_run = 0
    /\ cancelled = FALSE
    /\ g_processed = {}
    /\ g_extracted = {}
    /\ g_start_obs = ""
    /\ g_start_versions = <<>>
    /\ g_nu = NoCall
    /\ current_download_path = "None"
    \* ---- Zip idle ----
    /\ z_target = <<>>
    /\ z_overwrite = FALSE
    /\ z_fs = {}
    /\ z_written = {}
    /\ z_entry = NoEntry
    /\ z_skipped = FALSE
    /\ z_i = 0
    /\ z_total = 0
    /\ z_files_extracted = 0
    /\ z_failed = 0
    /\ z_pc = "idle"
    \* ---- DL idle ----
    /\ dl_resume = FALSE
    /\ dl_file = Absent
    /\ dl_initial = Absent
    /\ dl_existing_size = 0
    /\ dl_attempt = 0
    /\ dl_exchange = NoExchange
    /\ dl_partial = FALSE
    /\ dl_result = NoResult
    /\ dl_pc = "idle"
    /\ dl_max_retries = 0
    /\ dl_calls = 0
    /\ dl_sleeps = 0
    /\ dl_returns = "nothing"
    /\ dl_last = NoResult
    \* ---- Save idle ----
    /\ sv_saver = ""
    /\ sv_disk = NoFile
    /\ sv_before = NoFile
    /\ sv_dictionary = <<>>
    /\ sv_pc = "idle"
    \* ---- Flat idle ----
    /\ f_archive = <<>>
    /\ f_valid = FALSE
    /\ f_target = {}
    /\ f_temp = {}
    /\ f_root = NoRoot
    /\ f_i = 0
    /\ f_items = {}
    /\ f_success = FALSE
    /\ f_files_extracted = 0
    /\ f_pc = "idle"
    \* ---- Load idle ----
    /\ ld_loader = ""
    /\ ld_file = NoFile
    /\ ld_readable = TRUE
    /\ ld_value = NothingLoaded
    /\ ld_pc = "idle"
    \* ---- Cancel idle ----
    /\ c_unlink_open = FALSE
    /\ c_path = "None"
    /\ c_cancelled = FALSE
    /\ c_file = NoCacheFile
    /\ c_open = "closed"
    /\ c_attempt = 0
    /\ c_chunks = 0
    /\ c_cancel_at = ""
    /\ c_extracted = FALSE
    /\ c_recorded = FALSE
    /\ c_run = 0
    /\ w_pc = "idle"
    /\ u_pc = "idle"
    \* ---- Passes idle ----
    /\ ip_objects = <<>>
    /\ ip_success = {}
    /\ ip_pass = ""
    /\ ip_i = 0
    /\ ip_extracted = <<>>
    /\ ip_pc = "idle"
    \* ---- Shared idle ----
    /\ sh_obs_archive = <<>>
    /\ sh_plugin_files = {}
    /\ sh_install = {}
    /\ sh_record = NoPluginRecord
    /\ sh_cache = FALSE
    /\ sh_latest = "v1"
    /\ sh_options = [reinstall_obs |-> FALSE, install_plugins |-> FALSE]
    /\ sh_reported = "none"
    /\ sh_extract_result = FALSE
    /\ sh_run = 0
    /\ sh_pc = "idle"
    \* ---- Move idle ----
    /\ mv_source = {}
    /\ mv_before = {}
    /\ mv_locked = {}
    /\ mv_dest = <<>>
    /\ mv_todo = {}
    /\ mv_sub_todo = {}
    /\ mv_pc = "idle"

InitMove ==
    \* ---- Move ----
    /\ mv_source \in SUBSET MovePaths
    /\ mv_before = mv_source
    /\ mv_locked \in SUBSET mv_source
    /\ mv_dest = [p \in MovePaths |-> IF p \in mv_locked THEN "old" ELSE "none"]
    /\ mv_todo = ListDir(mv_source)
    /\ mv_sub_todo = {}
    /\ mv_pc = "copy_directory_contents"
    \* ---- Asset idle ----
    /\ assets = <<>>
    /\ filename_pattern = <<>>
    /\ matching_asset = 0
    /\ fm_pc = "idle"
    \* ---- Decide idle ----
    /\ d_force = FALSE
    /\ d_pattern = <<>>
    /\ d_filename = PyFalse
    /\ d_tag = "None"
    /\ d_record = NoRecord
    /\ d_download = FALSE
    /\ d_pc = "idle"
    \* ---- CLI idle ----
    /\ json_data = <<>>
    /\ upstream = <<>>
    /\ versions_json = <<>>
    /\ installed_versions = <<>>
    /\ downloads_status = <<>>
    /\ cli_pc = "idle"
    /\ cli_i = 0
    /\ cli_run = 0
    /\ startup_json = <<>>
    /\ downloaded = {}
    /\ extracted_ok = {}
    /\ run1_clean = TRUE
    /\ downloads_dir = <<>>
    /\ extracted_archive = <<>>
    \* ---- GUI idle ----
    /\ options = <<>>
    /\ last_obs_version = ""
    /\ obs_cache = "none"
    /\ plugin_versions_json = <<>>
    /\ downloaded_versions = <<>>
    /\ plugin_files = {}
    /\ latest_release = NoRelease
    /\ g_pc = "idle"
    /\ g_i = 0
    /\ g_run = 0
    /\ cancelled = FALSE
    /\ g_processed = {}
    /\ g_extracted = {}
    /\ g_start_obs = ""
    /\ g_start_versions = <<>>
    /\ g_nu = NoCall
    /\ current_download_path = "None"
    \* ---- Zip idle ----
    /\ z_target = <<>>
    /\ z_overwrite = FALSE
    /\ z_fs = {}
    /\ z_written = {}
    /\ z_entry = NoEntry
    /\ z_skipped = FALSE
    /\ z_i = 0
    /\ z_total = 0
    /\ z_files_extracted = 0
    /\ z_failed = 0
    /\ z_pc = "idle"
    \* ---- DL idle ----
    /\ dl_resume = FALSE
    /\ dl_file = Absent
    /\ dl_initial = Absent
    /\ dl_existing_size = 0
    /\ dl_attempt = 0
    /\ dl_exchange = NoExchange
    /\ dl_partial = FALSE
    /\ dl_result = NoResult
    /\ dl_pc = "idle"
    /\ dl_max_retries = 0
    /\ dl_calls = 0
    /\ dl_sleeps = 0
    /\ dl_returns = "nothing"
    /\ dl_last = NoResult
    \* ---- Save idle ----
    /\ sv_saver = ""
    /\ sv_disk = NoFile
    /\ sv_before = NoFile
    /\ sv_dictionary = <<>>
    /\ sv_pc = "idle"
    \* ---- Flat idle ----
    /\ f_archive = <<>>
    /\ f_valid = FALSE
    /\ f_target = {}
    /\ f_temp = {}
    /\ f_root = NoRoot
    /\ f_i = 0
    /\ f_items = {}
    /\ f_success = FALSE
    /\ f_files_extracted = 0
    /\ f_pc = "idle"
    \* ---- Load idle ----
    /\ ld_loader = ""
    /\ ld_file = NoFile
    /\ ld_readable = TRUE
    /\ ld_value = NothingLoaded
    /\ ld_pc = "idle"
    \* ---- Cancel idle ----
    /\ c_unlink_open = FALSE
    /\ c_path = "None"
    /\ c_cancelled = FALSE
    /\ c_file = NoCacheFile
    /\ c_open = "closed"
    /\ c_attempt = 0
    /\ c_chunks = 0
    /\ c_cancel_at = ""
    /\ c_extracted = FALSE
    /\ c_recorded = FALSE
    /\ c_run = 0
    /\ w_pc = "idle"
    /\ u_pc = "idle"
    \* ---- Passes idle ----
    /\ ip_objects = <<>>
    /\ ip_success = {}
    /\ ip_pass = ""
    /\ ip_i = 0
    /\ ip_extracted = <<>>
    /\ ip_pc = "idle"
    \* ---- Shared idle ----
    /\ sh_obs_archive = <<>>
    /\ sh_plugin_files = {}
    /\ sh_install = {}
    /\ sh_record = NoPluginRecord
    /\ sh_cache = FALSE
    /\ sh_latest = "v1"
    /\ sh_options = [reinstall_obs |-> FALSE, install_plugins |-> FALSE]
    /\ sh_reported = "none"
    /\ sh_extract_result = FALSE
    /\ sh_run = 0
    /\ sh_pc = "idle"
    \* ---- Cache idle ----
    /\ gh_server = <<>>
    /\ gh_cache = {}
    /\ gh_now = 0
    /\ gh_last = NoCacheCall

(***************************************************************************)
(* Specifications.                                                         *)
(***************************************************************************)
NextAsset == FindMatchingAsset

SpecAsset == InitAsset /\ [][NextAsset]_vars

NextDecide == Decide

SpecDecide == InitDecide /\ [][NextDecide]_vars

NextCLI ==
    \/ DownloadObject
    \/ InstallObs
    \/ InstallRest
    \/ WriteInstalledVersions
    \/ StartNextRun

SpecCLI == InitCLI /\ [][NextCLI]_vars

NextGUI ==
    \/ GetLatestRelease
    \/ CheckIfDownloadNeeded
    \/ DownloadObsRelease
    \/ ExtractObsStudio
    \/ UpdateConfiguration
    \/ DownloadPlugins
    \/ DownloadAllPlugins
    \/ Cancel
    \/ StartNextGuiRun

SpecGUI == InitGUI /\ [][NextGUI]_vars

NextZip ==
    \/ ExtractEntry
    \/ ExtractZipReturn

SpecZip == InitZip /\ [][NextZip]_vars

NextDL ==
    \/ DownloadFileStart
    \/ AttemptDownload

SpecDL == InitDL /\ [][NextDL]_vars

NextSave ==
    \/ SaveOpen
    \/ SaveDump
    \/ SaveKilled

SpecSave == InitSave /\ [][NextSave]_vars

NextFlat ==
    \/ FlatGetZipInfo
    \/ FlatExtractToTemp
    \/ FlatNestedDir
    \/ FlatMoveItem
    \/ FlatCleanup
    \/ FlatExtractDirect

SpecFlat == InitFlat /\ [][NextFlat]_vars

NextLoad ==
    \/ LoadOpen
    \/ LoadParse
    \/ LoadUse

SpecLoad == InitLoad /\ [][NextLoad]_vars

NextCancel ==
    \/ CheckCacheFile
    \/ SetCurrentDownloadPath
    \/ BeginDownloadFile
    \/ SendRequest
    \/ WriteChunk
    \/ ConnectionBreaks
    \/ DownloadCompletes
    \/ CheckCancelledBeforeExtract
    \/ ExtractDownloaded
    \/ UpdateAfterExtract
    \/ CancelCalled
    \/ CancelChecksPath
    \/ cleanup_partial_download
    \/ WaitReturns
    \/ WaitTimesOut
    \/ StartNextWorker

SpecCancel == InitCancel /\ [][NextCancel]_vars

NextPasses ==
    \/ InstallPassIteration
    \/ InstallPassEnds

SpecPasses == InitPasses /\ [][NextPasses]_vars

NextMove ==
    \/ CopyFile
    \/ CopyEntersDirectory
    \/ CopyFileBelow
    \/ RecursiveCallReturns
    \/ CopyReturns
    \/ RemoveSource

SpecMove == InitMove /\ [][NextMove]_vars

NextShared ==
    \/ ObsStepSkipped
    \/ ObsStepExtracts
    \/ ObsStepFails
    \/ PluginsSkipped
    \/ PluginUpToDate
    \/ PluginDownloaded
    \/ StartSharedRun

SpecShared == InitShared /\ [][NextShared]_vars

NextCache ==
    \/ CallGetLatestRelease
    \/ CallGetReleases
    \/ TimePasses

SpecCache == InitCache /\ [][NextCache]_vars
(***************************************************************************)
(* Claims.                                                                 *)
(***************************************************************************)

\* C10: find_matching_asset returns the first asset whose name matches the
\* pattern under shell-glob semantics, and None when no asset name matches.
C10_FirstGlobMatch ==
    fm_pc = "returned" =>
        matching_asset =
            FirstIndex({ i \in 1..Len(assets) : GlobMatch(filename_pattern, assets[i]) })

\* C9: the download decision of download_objects equals the five-rule policy
\* (force; no record; tag present and different; static pattern and filename
\* different; otherwise no update).
C9_DecisionIsPolicy ==
    d_pc = "decided" =>
        d_download = PolicyNeedsUpdate(d_force, d_record, d_filename, d_tag, d_pattern)

\* C2: over a run, the record of an object is changed, in memory and in the
\* versions.json on disk, only if its extraction returned True in that run.
C2_RecordOnlyAfterExtraction ==
    cli_pc # "idle" =>
        \A o \in Objs :
            /\ installed_versions.recs[o] # FileRecs(startup_json)[o] => o \in extracted_ok
            /\ FileRecs(versions_json)[o] # FileRecs(startup_json)[o] => o \in extracted_ok

C2_Witness ==
    /\ cli_pc = "done"
    /\ \E o \in Objs : FileRecs(versions_json)[o] # FileRecs(startup_json)[o]
    /\ \E o \in Objs :
          /\ o \in downloaded
          /\ o \notin extracted_ok
          /\ FileRecs(versions_json)[o] = FileRecs(startup_json)[o]
          /\ FileRecs(startup_json)[o] # NoRecord

\* C3: with no upstream change and no force_download, the second of two runs
\* in a row calls download_file for no object (stated for a first run in
\* which every object resolved to an archive and nothing failed).
C3_SecondRunDownloadsNothing ==
    ( /\ cli_run = 2
      /\ run1_clean
      /\ \A i \in 1..NumObjects : ~json_data[i].force_download
      /\ \A o \in Objs : /\ upstream[o].found
                        /\ (IsZipName(upstream[o].filename) \/ Is7zName(upstream[o].filename)) )
    => downloaded = {}

\* C1: in the GUI pipeline a persisted version record (last_obs_version,
\* the plugin's entry of plugin_versions.json) differs from what it was when
\* the run started only if the extraction of that object returned True.
C1_GuiRecordOnlyAfterExtraction ==
    g_pc # "idle" =>
        /\ last_obs_version # g_start_obs => "OBS" \in g_extracted
        /\ \A p \in Plugins :
              plugin_versions_json[p] # g_start_versions[p] => p \in g_extracted

\* C7: in the GUI pipeline a run that was not cancelled and installs plugins
\* has processed every configured plugin when it ends, whatever failed
\* before.
C7_ErrorNeverAborts ==
    (g_pc = "finished" /\ ~cancelled /\ options.install_plugins) => Plugins \subseteq g_processed

C5_ResumeGivesFullContent ==
    ( /\ dl_resume
      /\ dl_initial.exists
      /\ Len(dl_initial.content) > 0
      /\ dl_initial.content = Prefix(RemoteContent, Len(dl_initial.content))
      /\ dl_exchange # NoExchange )
    => /\ dl_exchange.range = Len(dl_initial.content)
       /\ (dl_pc = "returned" /\ dl_result.success /\ dl_exchange.status = 206)
             => dl_file = Holding(RemoteContent)

\* C6: if the process is killed during a save, the state file is either
\* the complete previous state or the complete new state.
C6_KilledSaveLeavesCompleteState ==
    sv_pc = "killed" =>
        \/ sv_disk = sv_before
        \/ /\ sv_disk.exists
           /\ json_load(sv_disk.text) = [ok |-> TRUE, data |-> sv_dictionary]

\* the entries of the archive all lie under one top-level directory, and no
\* entry is a file where another entry needs a directory
UnderOneRoot(archive) ==
    /\ Cardinality(root_items(archive)) = 1
    /\ \A i \in 1..Len(archive) : ~archive[i].is_dir => Len(archive[i].parts) > 1
    /\ \A i, j \in 1..Len(archive) :
          (~archive[i].is_dir /\ archive[i].parts # archive[j].parts)
              => ~is_relative_to(archive[j].parts, archive[i].parts)
    /\ \A i, j \in 1..Len(archive) :
          archive[i].parts = archive[j].parts => archive[i].is_dir = archive[j].is_dir

\* C11: after a successful extract_obs_installation of an archive whose
\* entries all lie under one top-level directory R, every file entry R/p is a
\* file at target_path/p, nothing is at target_path/R, and the temporary side
\* directory is gone.
C11_SingleRootFlattened ==
    (f_pc = "returned" /\ f_success /\ UnderOneRoot(f_archive)) =>
        /\ \A i \in 1..Len(f_archive) :
              ~f_archive[i].is_dir => KindAt(f_target, Tail(f_archive[i].parts)) = "file"
        /\ KindAt(f_target, <<f_root>>) = "none"
        /\ f_temp = {}

\* C12: download_file makes at most max_retries attempts, sleeps retry_delay
\* between two consecutive attempts, makes no attempt after a successful
\* one, and returns a DownloadResult: a success if an attempt succeeded,
\* otherwise the failure of the last attempt.
C12_BoundedRetry ==
    /\ dl_calls <= dl_max_retries
    /\ dl_pc = "attempt" => dl_sleeps = dl_calls
    /\ dl_pc = "returned" =>
          /\ dl_returns = "DownloadResult"
          /\ dl_sleeps = dl_calls - 1
          /\ dl_result = dl_last
    /\ dl_last.success => dl_pc = "returned"

\* C13: an answer whose status is neither 200 nor 206 ends the call: no
\* further request is sent, and the result is a failure with that status.
C13_StatusNotRetried ==
    dl_exchange.status \in ErrorStatuses =>
        /\ dl_pc = "returned"
        /\ ~dl_result.success
        /\ dl_result.http_status = dl_exchange.status

\* C14: when the file held N > 0 bytes, a Range request was sent and the
\* server answered 200 with the complete body, a successful call leaves the
\* complete remote content in the file.
C14_RangeFallback ==
    (/\ dl_pc = "returned"
     /\ dl_result.success
     /\ ~dl_partial
     /\ dl_exchange.range # NoRange
     /\ dl_exchange.status = 200) => dl_file = Holding(RemoteContent)

\* C15: an object whose archive was extracted successfully in this run has
\* in installed_versions the record of what was resolved (filename, and tag
\* for a GitHub object), and when the run has ended that record is in
\* versions.json (unless the write itself failed and left the file as it was).
C15_ExtractedIsRecorded ==
    cli_pc # "idle" =>
        \A o \in extracted_ok :
            LET resolved == [filename |-> upstream[o].filename,
                             tag |-> IF KindOf(o) = "github" THEN upstream[o].tag
                                     ELSE installed_versions.recs[o].tag]
            IN  /\ installed_versions.recs[o] = resolved
                /\ cli_pc \in {"done", "crashed", "raised"} =>
                      \/ FileRecs(versions_json)[o] = resolved
                      \/ (cli_pc = "done" /\ versions_json = startup_json)

\* C16: an object whose resolution gave the NotFound value or failed is
\* skipped: the failure does not end the run, download_file is not called
\* for the object, and its record stays what it was.
C16_ResolutionFailureSkips ==
    cli_pc # "idle" =>
        /\ cli_pc # "raised"
        /\ \A o \in Objs :
              ~upstream[o].found =>
                  /\ o \notin downloaded
                  /\ installed_versions.recs[o] = FileRecs(startup_json)[o]

\* C18: objects are processed one at a time: when the download of an object
\* begins, no object before it is downloaded and still waiting for its
\* extraction; and the archive extracted for an object is the one that was
\* downloaded for it.
C18_OneObjectAtATime ==
    cli_pc # "idle" =>
        /\ cli_pc = "download_objects" =>
              \A i \in 1..(cli_i - 1) :
                  downloads_status[json_data[i].name].download_success # "True"
        /\ \A o \in Objs : extracted_archive[o] \in {"none", o}

\* C17: loading the version state never raises, and when the state file is
\* absent, unreadable or not a valid JSON mapping, the loaded state is an
\* empty mapping that the run can use.
C17_LoadNeverFatal ==
    /\ ld_pc # "raised"
    /\ (/\ ld_pc \in {"returned", "used"}
        /\ \/ ~ld_file.exists
           \/ ~ld_readable
           \/ ~json_parse(ld_file.text).ok
           \/ json_parse(ld_file.text).kind # "dict")
       => /\ ld_value.kind \in {"dict", "defaultdict"}
          /\ ld_value.data = EmptyState

\* a step of the worker in which a download begins: download_file is called
\* for the OBS asset, or download_plugin is called for a GitHub plugin
DownloadBegins ==
    \/ /\ g_pc = "download_obs_release"
       /\ latest_release.has_asset
       /\ g_pc' # g_pc
    \/ /\ g_pc = "download_all_plugins"
       /\ g_i' # g_i
       /\ g_nu'.called
       /\ g_nu'.result

\* an extraction begins: _extract_obs_studio is called
ExtractionBegins ==
    /\ g_pc = "extract_obs_studio"
    /\ g_pc' # g_pc
    /\ ~(g_pc' = "finished" /\ cancelled)

\* C19: once cancel() has set cancelled, no download and no extraction of
\* any object begins.
C19_NothingStartsAfterCancel ==
    [][cancelled => ~(DownloadBegins \/ ExtractionBegins)]_vars

\* C20: when cancel() was called while the worker was inside download_file,
\* then once the worker has stopped and cancel_installation has ended, no
\* partially downloaded file is at current_download_path and nothing was
\* extracted or recorded.
C20_CancelCleansPartialFile ==
    (WorkerStopped /\ u_pc = "cancelled" /\ c_cancel_at \in InDownloadFile)
        => (~PartialFile /\ ~c_extracted /\ ~c_recorded)

\* the number of extractions made for an object
TimesExtracted(o) ==
    Cardinality({ i \in DOMAIN ip_extracted : ip_extracted[i][1] = o })

\* C21: the OBS object is extracted before any other object, the second pass
\* never extracts it, and when both passes have ended every object whose
\* download succeeded was extracted exactly once.
C21_ObsFirstEachOnce ==
    /\ \A i, j \in DOMAIN ip_extracted :
          (i < j /\ NameLower(ip_extracted[j][1]) = "obs")
              => NameLower(ip_extracted[i][1]) = "obs"
    /\ \A i \in DOMAIN ip_extracted :
          ip_extracted[i][2] = "False" => NameLower(ip_extracted[i][1]) # "obs"
    /\ \A o \in PassNames : TimesExtracted(o) <= 1
    /\ ip_pc = "returned" => ip_success = {}

\* C22: extract_zip passes over an entry that is unsafe or whose extraction
\* raises and goes on with the other entries: what an iteration counts in
\* files_extracted exists below target_path, and the call returns after the
\* last entry with files_extracted = total_files minus the entries passed
\* over, hence less than total_files exactly when an entry was passed over.
C22_ContinuesPastEntryFailures ==
    /\ [](z_pc = "returned" =>
             /\ z_files_extracted = z_total - z_failed
             /\ (z_files_extracted < z_total <=> z_failed > 0))
    /\ [][z_files_extracted' = z_files_extracted + 1
             => resolve(PathJoin(z_target, z_entry')) \in z_fs']_vars

C22_Witness ==
    /\ z_pc = "returned"
    /\ z_failed > 0
    /\ z_files_extracted > 0
    /\ z_written # {}

\* C23: after a move every file that was below the subdirectory is below the
\* installation root at the same relative path, and the subdirectory was
\* removed only with all of its files relocated.
C23_MoveLosesNothing ==
    /\ mv_pc = "returned" => \A p \in mv_before : mv_dest[p] = "new"
    /\ mv_pc # "idle" => \A p \in mv_before : (p \in mv_source \/ mv_dest[p] = "new")

\* C24: whenever _check_if_download_needed has returned False, so that run()
\* goes on with the cache file without a download, that file is a complete
\* copy of the asset.
C24_SkipOnlyCompleteArchive ==
    (w_pc = "downloaded" /\ c_path = "None") => (c_file.exists /\ ~PartialFile)

\* C25: when an attempt of a call failed after it had written bytes and a
\* later attempt of the same call succeeded, the file equals the remote
\* content.
C25_RetryAfterPartialWrite ==
    (dl_pc = "returned" /\ dl_result.success /\ dl_partial)
        => dl_file = Holding(RemoteContent)

\* C26: whatever the destination held before the call, a prefix of the remote
\* content or not, a call that returns success leaves the remote content in
\* the file.
C26_SuccessLeavesRemoteContent ==
    (dl_pc = "returned" /\ dl_returns = "DownloadResult" /\ dl_result.success)
        => (dl_file.exists /\ dl_file.content = RemoteContent)

\* C27: with resume enabled and the complete remote content already at the
\* destination, a call the server answered returns success and the file
\* holds the remote content.
C27_RedownloadOfCompleteFile ==
    (/\ dl_resume
     /\ dl_initial = Holding(RemoteContent)
     /\ dl_pc = "returned"
     /\ dl_returns = "DownloadResult"
     /\ dl_exchange.status \in {200, 206, 416})
        => (dl_result.success /\ dl_file = Holding(RemoteContent))

\* where a file entry is to be after extract_obs_installation: relative to
\* the single top-level directory when the archive was flattened, at its own
\* path otherwise
ExpectedPath(archive, parts) ==
    IF Cardinality(root_items(archive)) = 1 /\ Len(parts) > 1 THEN Tail(parts) ELSE parts

\* C29: when extract_obs_installation returns success with files_extracted
\* equal to the number of entries, every file entry of the archive is a file
\* below target_path.
C29_AllExtractedAllPresent ==
    (f_pc = "returned" /\ f_success /\ f_files_extracted = Len(f_archive)) =>
        \A i \in 1..Len(f_archive) :
            ~f_archive[i].is_dir =>
                KindAt(f_target, ExpectedPath(f_archive, f_archive[i].parts)) = "file"

\* C28: at the end of every run of the GUI pipeline, a plugin that has a
\* record in downloaded_versions and was reported up to date (not extracted
\* again) has every file of its archive in the installation directory.
C28_RecordedImpliesInstalled ==
    (sh_pc = "done" /\ sh_record # NoPluginRecord /\ sh_reported = "up_to_date") =>
        \A parts \in sh_plugin_files : KindAt(sh_install, parts) = "file"

\* C30: a call of get_latest_release or get_releases that is served from the
\* cache returns the releases, with their tag names and assets, that the call
\* which stored the cache entry returned.
C30_CacheRoundTrip ==
    gh_last.from_cache => gh_last.result = CacheEntry(gh_cache, gh_last.key).returned

=============================================================================
